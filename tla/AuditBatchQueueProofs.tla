------------------------ MODULE AuditBatchQueueProofs ------------------------
(***************************************************************************)
(* The safety of AuditBatchQueue for every capacity of the queue, batch    *)
(* size, threshold and number of events and failures, with and without a   *)
(* file spool.                                                             *)
(***************************************************************************)
EXTENDS AuditBatchQueue, TLAPS

Sorted(s) == \A i, j \in DOMAIN s : i < j => s[i] < s[j]

Hand == {hand} \ {None}

(* Where an accepted event is before it is settled.                        *)
InFlight == Elements(local) \cup Hand \cup Elements(queue)

(* There is room for the event that is taken.                              *)
SizeInv ==
    /\ cpc \in {"top", "wait", "check", "took"} \cup Polling => Len(local) < MaxBatch
    /\ cpc = "took" <=> hand # None

(* The route of a batch: the direct one is open only while the spool owes  *)
(* nothing, and a batch on the way to the spool is stashed whole.          *)
RouteInv ==
    /\ ~pending => owed = {}
    /\ ~SpoolEnabled => owed = {} /\ ~toSpool /\ ~pending
    /\ cpc \in {"top", "wait", "check", "exited"} /\ toSpool => local = <<>>
    /\ ~toSpool /\ local # <<>> => owed = {}
    /\ ~toSpool /\ cpc \in Polling \cup {"took"} => owed = {}
    /\ cpc = "wait" => ~toSpool
    /\ cpc \in {"send", "dead"} => ~toSpool /\ local # <<>>

(* Events are in the stages of the queue in the order of their numbers.    *)
OrderInv ==
    /\ Spool!Before(sent, owed \cup InFlight)
    /\ Spool!Before(owed, InFlight)
    /\ Spool!Before(Elements(local), Hand \cup Elements(queue))
    /\ Spool!Before(Hand, Elements(queue))
    /\ Sorted(queue)
    /\ Spool!Before(sent \cup owed \cup InFlight, {next})

(* No accepted event is nowhere.                                           *)
AccountInv ==
    /\ (1 .. next - 1) \ rejected \subseteq Settled \cup InFlight
    /\ rejected \subseteq 1 .. next - 1
    /\ wpc = "off" => ~drain /\ early = {}
    /\ cpc = "exited" => wpc # "off"
    /\ early \subseteq (1 .. next - 1) \ rejected
    /\ wpc = "seen" => early \subseteq Settled \cup Elements(local) \cup Hand
    /\ DrainedBeforeExit
    /\ LosesAtMostOne

IInv == TypeOK /\ SizeInv /\ RouteInv /\ OrderInv /\ AccountInv

-----------------------------------------------------------------------------
(* Sequences of events.                                                    *)

LEMMA Shift ==
    ASSUME NEW a \in Nat, NEW b \in Nat, NEW i \in 1 .. a + b, i \notin 1 .. a
    PROVE  \E j \in 1 .. b : i = a + j
<1>1. i - a \in 1 .. b /\ i = a + (i - a)
      OBVIOUS
<1> QED BY <1>1

LEMMA ElementsOfAppend ==
    ASSUME NEW s \in Seq(Events), NEW e \in Events
    PROVE  /\ Append(s, e) \in Seq(Events)
           /\ Elements(Append(s, e)) = Elements(s) \cup {e}
<1>1. /\ DOMAIN Append(s, e) = 1 .. Len(s) + 1
      /\ \A i \in 1 .. Len(s) : Append(s, e)[i] = s[i]
      /\ Append(s, e)[Len(s) + 1] = e
      OBVIOUS
<1>2. \A x : x \in Elements(Append(s, e)) <=> x \in Elements(s) \/ x = e
      BY <1>1 DEF Elements
<1> QED BY <1>2

LEMMA ElementsOfConcat ==
    ASSUME NEW s \in Seq(Events), NEW t \in Seq(Events)
    PROVE  /\ s \o t \in Seq(Events) /\ Len(s \o t) = Len(s) + Len(t)
           /\ Elements(s \o t) = Elements(s) \cup Elements(t)
<1>1. /\ Len(s) \in Nat /\ DOMAIN s = 1 .. Len(s)
      /\ Len(t) \in Nat /\ DOMAIN t = 1 .. Len(t)
      /\ DOMAIN (s \o t) = 1 .. Len(s) + Len(t)
      OBVIOUS
<1>2. /\ \A i \in 1 .. Len(s) : (s \o t)[i] = s[i]
      /\ \A i \in 1 .. Len(t) : (s \o t)[Len(s) + i] = t[i]
      OBVIOUS
<1>3. \A i \in 1 .. Len(s) + Len(t) :
         i \in 1 .. Len(s) \/ \E j \in 1 .. Len(t) : i = Len(s) + j
      BY <1>1, Shift
<1>4. \A i \in 1 .. Len(s) : i \in 1 .. Len(s) + Len(t)
      BY <1>1
<1>5. \A j \in 1 .. Len(t) : Len(s) + j \in 1 .. Len(s) + Len(t)
      BY <1>1
<1>6. ASSUME NEW x \in Elements(s \o t)
      PROVE  x \in Elements(s) \cup Elements(t)
  <2>1. PICK i \in 1 .. Len(s) + Len(t) : x = (s \o t)[i]
        BY <1>1 DEF Elements
  <2>2. CASE i \in 1 .. Len(s)
        BY <1>1, <1>2, <2>1, <2>2 DEF Elements
  <2>3. CASE \E j \in 1 .. Len(t) : i = Len(s) + j
        BY <1>1, <1>2, <2>1, <2>3 DEF Elements
  <2> QED BY <1>3, <2>2, <2>3
<1>7. ASSUME NEW x \in Elements(s) \cup Elements(t)
      PROVE  x \in Elements(s \o t)
  <2>1. CASE x \in Elements(s)
        BY <1>1, <1>2, <1>4, <2>1 DEF Elements
  <2>2. CASE x \in Elements(t)
    <3>1. PICK j \in 1 .. Len(t) : x = t[j]
          BY <1>1, <2>2 DEF Elements
    <3>2. x = (s \o t)[Len(s) + j] /\ Len(s) + j \in DOMAIN (s \o t)
          BY <1>1, <1>2, <1>5, <3>1
    <3> QED BY <3>2 DEF Elements
  <2> QED BY <2>1, <2>2
<1> QED BY <1>6, <1>7

(* drainTo splits the queue.                                               *)
LEMMA Split ==
    ASSUME NEW s \in Seq(Events), NEW n \in 0 .. Len(s)
    PROVE  LET front == SubSeq(s, 1, n)
               rest  == SubSeq(s, n + 1, Len(s))
           IN  /\ front \in Seq(Events) /\ Len(front) = n
               /\ rest \in Seq(Events) /\ Len(rest) = Len(s) - n
               /\ Elements(s) = Elements(front) \cup Elements(rest)
               /\ Sorted(s) => /\ Sorted(rest)
                               /\ Spool!Before(Elements(front), Elements(rest))
<1> DEFINE front == SubSeq(s, 1, n)
           rest  == SubSeq(s, n + 1, Len(s))
<1>1. /\ front \in Seq(Events) /\ Len(front) = n /\ DOMAIN front = 1 .. n
      /\ \A i \in 1 .. n : front[i] = s[i]
      OBVIOUS
<1>2. /\ rest \in Seq(Events) /\ Len(rest) = Len(s) - n /\ DOMAIN rest = 1 .. Len(s) - n
      /\ \A i \in 1 .. Len(s) - n : rest[i] = s[n + i]
      OBVIOUS
<1>3. \A i \in DOMAIN s : i \in 1 .. n \/ \E j \in 1 .. Len(s) - n : i = n + j
  <2>1. \A i \in 1 .. n + (Len(s) - n) :
           i \in 1 .. n \/ \E j \in 1 .. Len(s) - n : i = n + j
        BY Shift
  <2> QED BY <2>1
<1> HIDE DEF front, rest
<1>4. DOMAIN s = 1 .. Len(s) /\ Len(s) \in Nat /\ n \in Nat /\ n <= Len(s)
      OBVIOUS
<1>5. \A i \in 1 .. Len(s) - n : n + i \in 1 .. Len(s)
      BY <1>4
<1>6. \A i \in 1 .. n : i \in 1 .. Len(s)
      BY <1>4
<1>7. Elements(s) = Elements(front) \cup Elements(rest)
  <2>1. ASSUME NEW x \in Elements(s)
        PROVE  x \in Elements(front) \cup Elements(rest)
    <3>1. PICK i \in DOMAIN s : x = s[i]
          BY <2>1 DEF Elements
    <3>2. CASE i \in 1 .. n
          BY <1>1, <3>1, <3>2 DEF Elements
    <3>3. CASE \E j \in 1 .. Len(s) - n : i = n + j
          BY <1>2, <3>1, <3>3 DEF Elements
    <3> QED BY <1>3, <3>2, <3>3
  <2>2. Elements(front) \subseteq Elements(s)
        BY <1>1, <1>4, <1>6 DEF Elements
  <2>3. ASSUME NEW x \in Elements(rest)
        PROVE  x \in Elements(s)
    <3>1. PICK j \in 1 .. Len(s) - n : x = rest[j]
          BY <1>2, <2>3 DEF Elements
    <3>2. n + j \in DOMAIN s /\ x = s[n + j]
          BY <1>2, <1>4, <1>5, <3>1
    <3> QED BY <3>2 DEF Elements
  <2> QED BY <2>1, <2>2, <2>3
<1>8. ASSUME Sorted(s)
      PROVE  Sorted(rest)
  <2>1. \A i, j \in 1 .. Len(s) - n : i < j => n + i < n + j
        BY <1>4
  <2> QED BY <1>2, <1>4, <1>5, <1>8, <2>1 DEF Sorted
<1>9. ASSUME Sorted(s)
      PROVE  Spool!Before(Elements(front), Elements(rest))
  <2>1. \A i \in 1 .. n, j \in 1 .. Len(s) - n : s[i] < s[n + j]
    <3>1. \A i \in 1 .. n, j \in 1 .. Len(s) - n : i < n + j
          BY <1>4
    <3> QED BY <1>4, <1>5, <1>6, <1>9, <3>1 DEF Sorted
  <2> QED BY <1>1, <1>2, <2>1 DEF Spool!Before, Elements
<1> QED BY <1>1, <1>2, <1>7, <1>8, <1>9 DEF front, rest

(* The head of the queue comes before the rest.                            *)
LEMMA HeadAndTail ==
    ASSUME NEW s \in Seq(Events), s # <<>>
    PROVE  /\ Head(s) \in Events /\ Tail(s) \in Seq(Events) /\ Len(Tail(s)) = Len(s) - 1
           /\ Elements(s) = {Head(s)} \cup Elements(Tail(s))
           /\ Sorted(s) => /\ Sorted(Tail(s))
                           /\ Spool!Before({Head(s)}, Elements(Tail(s)))
<1>1. /\ Head(s) \in Events /\ Tail(s) \in Seq(Events) /\ Len(Tail(s)) = Len(s) - 1
      /\ Len(s) \in Nat \ {0} /\ DOMAIN s = 1 .. Len(s) /\ DOMAIN Tail(s) = 1 .. Len(s) - 1
      OBVIOUS
<1>2. /\ Head(s) = s[1]
      /\ \A i \in 1 .. Len(s) - 1 : Tail(s)[i] = s[i + 1]
      OBVIOUS
<1>3. \A i \in 1 .. Len(s) : i = 1 \/ \E j \in 1 .. Len(s) - 1 : i = j + 1
  <2>1. \A i \in 1 .. 1 + (Len(s) - 1) : i \in 1 .. 1 \/ \E j \in 1 .. Len(s) - 1 : i = 1 + j
        BY <1>1, Shift
  <2>2. 1 + (Len(s) - 1) = Len(s)
        BY <1>1
  <2>3. \A i \in 1 .. Len(s) : i \in 1 .. 1 \/ \E j \in 1 .. Len(s) - 1 : i = 1 + j
        BY <2>1, <2>2
  <2> QED BY <1>1, <2>3
<1>4. Elements(s) = {Head(s)} \cup Elements(Tail(s))
  <2>1. ASSUME NEW x \in Elements(s)
        PROVE  x \in {Head(s)} \cup Elements(Tail(s))
    <3>1. PICK i \in 1 .. Len(s) : x = s[i]
          BY <1>1, <2>1 DEF Elements
    <3>2. CASE i = 1
          BY <1>2, <3>1, <3>2
    <3>3. CASE \E k \in 1 .. Len(s) - 1 : i = k + 1
          BY <1>1, <1>2, <3>1, <3>3 DEF Elements
    <3> QED BY <1>3, <3>2, <3>3
  <2>2. Head(s) \in Elements(s)
        BY <1>1, <1>2 DEF Elements
  <2>3. ASSUME NEW x \in Elements(Tail(s))
        PROVE  x \in Elements(s)
    <3>1. PICK i \in 1 .. Len(s) - 1 : x = Tail(s)[i]
          BY <1>1, <2>3 DEF Elements
    <3>2. i + 1 \in 1 .. Len(s) /\ x = s[i + 1]
          BY <1>1, <1>2, <3>1
    <3> QED BY <1>1, <3>2 DEF Elements
  <2> QED BY <2>1, <2>2, <2>3
<1>5. \A i \in 1 .. Len(s) - 1 : i + 1 \in 1 .. Len(s) /\ 1 < i + 1
      BY <1>1
<1>6. ASSUME Sorted(s)
      PROVE  Sorted(Tail(s))
  <2>1. \A i, j \in 1 .. Len(s) - 1 : i < j => i + 1 < j + 1
        BY <1>1
  <2> QED BY <1>1, <1>2, <1>5, <1>6, <2>1 DEF Sorted
<1>7. ASSUME Sorted(s)
      PROVE  Spool!Before({Head(s)}, Elements(Tail(s)))
  <2>1. \A j \in 1 .. Len(s) - 1 : s[1] < s[j + 1]
        BY <1>1, <1>5, <1>7 DEF Sorted
  <2> QED BY <1>1, <1>2, <2>1 DEF Spool!Before, Elements
<1> QED BY <1>1, <1>4, <1>6, <1>7

-----------------------------------------------------------------------------
(* The steps that move no event: they change where the threads are.        *)
Control ==
    \/ WaitForSpool \/ FollowSpool \/ GoDirect \/ WakeUp
    \/ PollNothing \/ Interrupted \/ DispatchBatch \/ KeepBatch
    \/ SendThrows \/ CheckDrain \/ SpoolClears
    \/ SeesEmptyQueue \/ SeesEmptyBuffer \/ Stop

LEMMA Steps ==
    ASSUME [Next]_vars
    PROVE  \/ Control \/ Log \/ PollEvent \/ FillBatch \/ StashBatch \/ SendAccepted
           \/ SendRefused \/ SpoolHandsOver \/ SpoolGivesUp \/ WaitBegin
           \/ UNCHANGED vars
BY DEF Next, ConsumerNext, SpoolNext, ShutdownNext, Control

LEMMA ControlMovesNothing ==
    ASSUME Control
    PROVE  UNCHANGED <<queue, local, hand, owed, next, sent, lost, rejected, early>>
BY DEF Control, WaitForSpool, FollowSpool, GoDirect, WakeUp, PollNothing, Interrupted,
       DispatchBatch, KeepBatch, SendThrows, CheckDrain, SpoolClears, SeesEmptyQueue,
       SeesEmptyBuffer, Stop, spoolVars, history, Spool!Clear

LEMMA EventsAreNumbers == Events \subseteq Nat /\ None \notin Events
BY QueueAssumption DEF Events, None

(* What drainTo takes fits into the batch.                                 *)
LEMMA FillBatchTakes ==
    ASSUME IInv, FillBatch
    PROVE  \E n \in 0 .. Len(queue) :
              /\ local' = Append(local, hand) \o SubSeq(queue, 1, n)
              /\ queue' = SubSeq(queue, n + 1, Len(queue))
              /\ Len(local) + 1 + n <= MaxBatch
<1>1. Len(local) \in Nat /\ Len(queue) \in Nat /\ MaxBatch \in Nat /\ Len(local) < MaxBatch
      BY QueueAssumption DEF IInv, TypeOK, SizeInv, FillBatch, At
<1> DEFINE n == IF Room < Len(queue) THEN Room ELSE Len(queue)
<1>2. n \in 0 .. Len(queue) /\ Len(local) + 1 + n <= MaxBatch
  <2>1. Room \in Nat /\ Len(local) + 1 + Room = MaxBatch
        BY <1>1 DEF Room
  <2>2. CASE Room < Len(queue)
        BY <1>1, <2>1, <2>2
  <2>3. CASE ~(Room < Len(queue))
        BY <1>1, <2>1, <2>3
  <2> QED BY <2>2, <2>3
<1>3. local' = Append(local, hand) \o SubSeq(queue, 1, n) /\ queue' = SubSeq(queue, n + 1, Len(queue))
      BY DEF FillBatch
<1> HIDE DEF n
<1> QED BY <1>2, <1>3

LEMMA FillBatchElements ==
    ASSUME IInv, FillBatch
    PROVE  /\ local' \in Seq(Events) /\ Len(local') <= MaxBatch /\ local' # <<>>
           /\ queue' \in Seq(Events) /\ Len(queue') <= Len(queue) /\ Sorted(queue')
           /\ hand' = None /\ Hand = {hand}
           /\ Elements(local') \cup Elements(queue') =
                 Elements(local) \cup Hand \cup Elements(queue)
           /\ Spool!Before(Elements(local'), Elements(queue'))
<1>1. PICK n \in 0 .. Len(queue) :
         /\ local' = Append(local, hand) \o SubSeq(queue, 1, n)
         /\ queue' = SubSeq(queue, n + 1, Len(queue))
         /\ Len(local) + 1 + n <= MaxBatch
      BY FillBatchTakes
<1> DEFINE front == SubSeq(queue, 1, n)
           rest  == SubSeq(queue, n + 1, Len(queue))
<1>2. /\ queue \in Seq(Events) /\ local \in Seq(Events) /\ Sorted(queue)
      /\ hand \in Events /\ hand' = None /\ Hand = {hand}
      BY EventsAreNumbers DEF IInv, TypeOK, OrderInv, SizeInv, FillBatch, At, Hand
<1>3. /\ front \in Seq(Events) /\ Len(front) = n
      /\ rest \in Seq(Events) /\ Len(rest) = Len(queue) - n
      /\ Elements(queue) = Elements(front) \cup Elements(rest)
      /\ Sorted(rest) /\ Spool!Before(Elements(front), Elements(rest))
      BY <1>2, Split
<1>4. /\ Append(local, hand) \in Seq(Events) /\ Len(Append(local, hand)) = Len(local) + 1
      /\ Elements(Append(local, hand)) = Elements(local) \cup {hand}
      BY <1>2, ElementsOfAppend
<1> HIDE DEF front, rest
<1>5. /\ local' \in Seq(Events) /\ Elements(local') = Elements(local) \cup {hand} \cup Elements(front)
      /\ Len(local') = Len(local) + 1 + n
      BY <1>1, <1>3, <1>4, ElementsOfConcat DEF front
<1>6. queue' = rest
      BY <1>1 DEF rest
<1>7. Len(local') <= MaxBatch /\ local' # <<>> /\ Len(queue') <= Len(queue)
  <2>1. Len(local) \in Nat /\ Len(queue) \in Nat /\ n \in Nat /\ n <= Len(queue)
        BY <1>2
  <2>2. Len(queue') = Len(queue) - n
        BY <1>3, <1>6
  <2>3. Len(local') <= MaxBatch /\ Len(local') # 0 /\ Len(queue') <= Len(queue)
        BY <1>1, <1>5, <2>1, <2>2
  <2> QED BY <2>3
<1>8. Spool!Before(Elements(local'), Elements(queue'))
  <2>1. Elements(queue') \subseteq Elements(queue)
        BY <1>3, <1>6
  <2>2. Spool!Before(Elements(local), Elements(queue)) /\ Spool!Before({hand}, Elements(queue))
        BY <1>2 DEF IInv, OrderInv, Spool!Before
  <2> QED BY <1>3, <1>5, <1>6, <2>1, <2>2 DEF Spool!Before
<1> QED BY <1>2, <1>3, <1>5, <1>6, <1>7, <1>8

-----------------------------------------------------------------------------
(* Each part of the invariant is kept by every step.                       *)

LEMMA TypeStep ==
    ASSUME IInv, [Next]_vars
    PROVE  TypeOK' /\ SizeInv'
<1> USE QueueAssumption DEF IInv, TypeOK, SizeInv, At, Shut, Polling
<1>1. CASE Control
  <2> USE DEF spoolVars, history
  <2>1. CASE WaitForSpool \/ FollowSpool \/ GoDirect \/ WakeUp
        BY <2>1 DEF WaitForSpool, FollowSpool, GoDirect, WakeUp
  <2>2. CASE PollNothing \/ Interrupted \/ DispatchBatch
        BY <2>2 DEF PollNothing, Interrupted, DispatchBatch
  <2>3. CASE KeepBatch
        BY <2>3 DEF KeepBatch, BatchIsDue
  <2>4. CASE SendThrows \/ CheckDrain
        BY <2>4 DEF SendThrows, CheckDrain
  <2>5. CASE SpoolClears
        BY <2>5 DEF SpoolClears, Spool!Clear
  <2>6. CASE SeesEmptyQueue \/ SeesEmptyBuffer \/ Stop
        BY <2>6 DEF SeesEmptyQueue, SeesEmptyBuffer, Stop
  <2> QED BY <1>1, <2>1, <2>2, <2>3, <2>4, <2>5, <2>6 DEF Control
<1>2. CASE Log
  <2>1. /\ next' \in 1 .. MaxEvents + 1 /\ rejected' \subseteq Events
        /\ queue' \in Seq(Events) /\ Len(queue') <= MaxQueue
    <3>1. next \in Events /\ next' \in 1 .. MaxEvents + 1
          BY <1>2 DEF Log, Events
    <3>2. CASE Len(queue) < MaxQueue
      <4>1. queue' = Append(queue, next) /\ rejected' = rejected
            BY <1>2, <3>2 DEF Log
      <4>2. Append(queue, next) \in Seq(Events) /\ Len(Append(queue, next)) = Len(queue) + 1
            BY <3>1
      <4>3. Len(queue) \in Nat
            OBVIOUS
      <4> QED BY <3>1, <3>2, <4>1, <4>2, <4>3
    <3>3. CASE ~(Len(queue) < MaxQueue)
          BY <1>2, <3>1, <3>3 DEF Log
    <3> QED BY <3>2, <3>3
  <2> QED BY <1>2, <2>1 DEF Log, spoolVars
<1>3. CASE PollEvent
  <2>1. Head(queue) \in Events /\ Tail(queue) \in Seq(Events) /\ Len(Tail(queue)) <= MaxQueue
        BY <1>3, HeadAndTail DEF PollEvent
  <2>2. queue' \in Seq(Events) /\ Len(queue') <= MaxQueue /\ hand' \in Events /\ hand' # None
        BY <1>3, <2>1, EventsAreNumbers DEF PollEvent
  <2> QED BY <1>3, <2>2 DEF PollEvent, spoolVars, history
<1>4. CASE FillBatch
  <2>1. /\ local' \in Seq(Events) /\ Len(local') <= MaxBatch
        /\ queue' \in Seq(Events) /\ Len(queue') <= MaxQueue /\ hand' = None
        BY <1>4, FillBatchElements
  <2> QED BY <1>4, <2>1 DEF FillBatch, spoolVars, history
<1>5. Elements(local) \subseteq Events
      BY DEF Elements
<1>6. CASE StashBatch
  <2>1. owed' \subseteq Events
        BY <1>5, <1>6 DEF StashBatch, Stash
  <2> QED BY <1>6, <2>1 DEF StashBatch, Stash, history
<1>7. CASE SendAccepted
  <2>1. sent' \subseteq Events
        BY <1>5, <1>7 DEF SendAccepted
  <2> QED BY <1>7, <2>1 DEF SendAccepted, spoolVars
<1>8. CASE SendRefused
  <2>1. /\ owed' \subseteq Events /\ lost' \subseteq Events /\ pending' \in BOOLEAN
        BY <1>5, <1>8 DEF SendRefused, Stash, spoolVars
  <2>2. faults' \in 0 .. MaxFaults
        BY <1>8 DEF SendRefused
  <2>3. /\ local' = <<>> /\ cpc = "send" /\ cpc' = "check"
        /\ UNCHANGED <<queue, hand, toSpool, drain, wpc, next, throws, sent, rejected, early>>
        BY <1>8 DEF SendRefused
  <2> QED BY <2>1, <2>2, <2>3
<1>9. CASE SpoolHandsOver
      BY <1>9 DEF SpoolHandsOver, Spool!HandOver
<1>10. CASE SpoolGivesUp
      BY <1>10 DEF SpoolGivesUp, Spool!GiveUp
<1>11. CASE WaitBegin
  <2>1. early' \subseteq Events
        BY <1>11 DEF WaitBegin, Events
  <2> QED BY <1>11, <2>1 DEF WaitBegin, spoolVars
<1>12. CASE UNCHANGED vars
      BY <1>12 DEF vars, spoolVars, history
<1> QED BY <1>1, <1>2, <1>3, <1>4, <1>6, <1>7, <1>8, <1>9, <1>10, <1>11, <1>12, Steps

LEMMA RouteStep ==
    ASSUME IInv, [Next]_vars
    PROVE  RouteInv'
<1> USE QueueAssumption DEF IInv, TypeOK, RouteInv, At, Shut, Polling, SpoolFirst
<1>1. CASE Control
  <2> USE DEF spoolVars, history
  <2>1. CASE WaitForSpool \/ FollowSpool \/ GoDirect \/ WakeUp
    <3>1. CASE WaitForSpool
          BY <3>1 DEF WaitForSpool
    <3>4. CASE WakeUp
          BY <3>4 DEF WakeUp
    <3>2. CASE FollowSpool
          BY <3>2 DEF FollowSpool
    <3>3. CASE GoDirect
          BY <3>3 DEF GoDirect
    <3> QED BY <2>1, <3>1, <3>2, <3>3, <3>4
  <2>2. CASE PollNothing \/ Interrupted \/ DispatchBatch \/ KeepBatch
        BY <2>2 DEF PollNothing, Interrupted, DispatchBatch, KeepBatch
  <2>3. CASE SendThrows \/ CheckDrain
        BY <2>3 DEF SendThrows, CheckDrain
  <2>4. CASE SpoolClears \/ SeesEmptyQueue \/ SeesEmptyBuffer \/ Stop
        BY <2>4 DEF SpoolClears, SeesEmptyQueue, SeesEmptyBuffer, Stop, Spool!Clear
  <2> QED BY <1>1, <2>1, <2>2, <2>3, <2>4 DEF Control
<1>2. CASE Log \/ PollEvent \/ WaitBegin
      BY <1>2 DEF Log, PollEvent, WaitBegin, spoolVars, history
<1>3. CASE FillBatch
      BY <1>3, FillBatchElements DEF FillBatch, spoolVars, history
<1>4. CASE StashBatch
      BY <1>4 DEF StashBatch, Stash, history
<1>5. CASE SendAccepted \/ SendRefused
      BY <1>5 DEF SendAccepted, SendRefused, Stash, spoolVars
<1>6. CASE SpoolHandsOver \/ SpoolGivesUp
  <2>1. owed' \subseteq owed /\ UNCHANGED <<pending, cpc, toSpool, local>>
        BY <1>6 DEF SpoolHandsOver, SpoolGivesUp, Spool!HandOver, Spool!GiveUp
  <2> QED BY <2>1
<1>7. CASE UNCHANGED vars
      BY <1>7 DEF vars, spoolVars, history
<1> QED BY <1>1, <1>2, <1>3, <1>4, <1>5, <1>6, <1>7, Steps

(* The order of two stages does not depend on where the events go on from. *)
LEMMA BeforeIsMonotone ==
    ASSUME NEW S, NEW T, NEW S1, NEW T1, S1 \subseteq S, T1 \subseteq T, Spool!Before(S, T)
    PROVE  Spool!Before(S1, T1)
BY DEF Spool!Before

LEMMA EmptyHasNone == Elements(<<>>) = {}
BY DEF Elements

(* A new event comes last.                                                 *)
LEMMA LogEnqueues ==
    ASSUME IInv, Log
    PROVE  /\ next \in Events /\ next' = next + 1
           /\ \/ /\ Elements(queue') = Elements(queue) \cup {next} /\ rejected' = rejected
                 /\ Sorted(queue')
              \/ queue' = queue /\ rejected' = rejected \cup {next}
<1>1. next \in Events /\ next' = next + 1 /\ queue \in Seq(Events) /\ next \in Nat
      BY EventsAreNumbers DEF Log, IInv, TypeOK
<1>2. CASE Len(queue) < MaxQueue
  <2>1. queue' = Append(queue, next) /\ rejected' = rejected
        BY <1>2 DEF Log
  <2>2. Elements(queue') = Elements(queue) \cup {next}
        BY <1>1, <2>1, ElementsOfAppend
  <2>3. \A i \in DOMAIN queue : queue[i] < next
        BY DEF IInv, OrderInv, InFlight, Spool!Before, Elements
  <2>4. Sorted(queue)
        BY DEF IInv, OrderInv
  <2>5. /\ DOMAIN queue = 1 .. Len(queue) /\ Len(queue) \in Nat
        /\ DOMAIN queue' = 1 .. Len(queue) + 1
        /\ \A i \in 1 .. Len(queue) : queue'[i] = queue[i]
        /\ queue'[Len(queue) + 1] = next
        BY <1>1, <2>1
  <2>6. ASSUME NEW i \in DOMAIN queue', NEW j \in DOMAIN queue', i < j
        PROVE  queue'[i] < queue'[j]
    <3>1. i \in 1 .. Len(queue)
          BY <2>5, <2>6
    <3>2. CASE j \in 1 .. Len(queue)
          BY <2>4, <2>5, <2>6, <3>1, <3>2 DEF Sorted
    <3>3. CASE j = Len(queue) + 1
          BY <2>3, <2>5, <3>1, <3>3
    <3> QED BY <2>5, <3>2, <3>3
  <2>7. Sorted(queue')
        BY <2>6 DEF Sorted
  <2> QED BY <1>1, <2>1, <2>2, <2>7
<1>3. CASE ~(Len(queue) < MaxQueue)
      BY <1>1, <1>3 DEF Log
<1> QED BY <1>2, <1>3

LEMMA OrderStep ==
    ASSUME IInv, [Next]_vars
    PROVE  OrderInv'
<1> USE EventsAreNumbers
<1>1. /\ next \in Nat /\ sent \subseteq Nat /\ owed \subseteq Nat
      /\ queue \in Seq(Events) /\ local \in Seq(Events)
      BY QueueAssumption DEF IInv, TypeOK
<1>2. InFlight \subseteq Nat /\ Elements(local) \subseteq Nat /\ Elements(queue) \subseteq Nat
  <2>1. Elements(local) \subseteq Events /\ Elements(queue) \subseteq Events
        BY <1>1 DEF Elements
  <2>2. Hand \subseteq Events
        BY DEF Hand, IInv, TypeOK
  <2> QED BY <2>1, <2>2 DEF InFlight
<1>3. /\ Spool!Before(sent, owed \cup InFlight) /\ Spool!Before(owed, InFlight)
      /\ Spool!Before(Elements(local), Hand \cup Elements(queue))
      /\ Spool!Before(Hand, Elements(queue)) /\ Sorted(queue)
      /\ Spool!Before(sent \cup owed \cup InFlight, {next})
      BY DEF IInv, OrderInv
<1>4. CASE Control \/ WaitBegin \/ UNCHANGED vars
  <2>1. UNCHANGED <<queue, local, hand, owed, next, sent>>
        BY <1>4, ControlMovesNothing DEF WaitBegin, vars, spoolVars, history
  <2> QED BY <1>3, <2>1 DEF OrderInv, InFlight, Hand
<1>5. CASE Log
  <2>1. UNCHANGED <<local, hand, owed, sent>> /\ next' = next + 1
        BY <1>5 DEF Log, spoolVars
  <2>2. InFlight' \subseteq InFlight \cup {next} /\ Elements(queue') \subseteq Elements(queue) \cup {next}
        BY <1>5, <2>1, LogEnqueues DEF InFlight, Hand
  <2>3. Sorted(queue')
        BY <1>3, <1>5, LogEnqueues
  <2>4. Hand' = Hand /\ Hand \subseteq InFlight /\ Elements(local) \subseteq InFlight
        BY <2>1 DEF Hand, InFlight
  <2>5. Spool!Before(sent', owed' \cup InFlight') /\ Spool!Before(owed', InFlight')
        BY <1>3, <2>1, <2>2 DEF Spool!Before
  <2>6. /\ Spool!Before(Elements(local'), Hand' \cup Elements(queue'))
        /\ Spool!Before(Hand', Elements(queue'))
        BY <1>3, <2>1, <2>2, <2>4 DEF Spool!Before
  <2>7. Spool!Before(sent' \cup owed' \cup InFlight', {next'})
    <3>1. \A x \in sent \cup owed \cup InFlight \cup {next} : x \in Nat /\ x < next + 1
          BY <1>1, <1>2, <1>3 DEF Spool!Before
    <3> QED BY <2>1, <2>2, <3>1 DEF Spool!Before
  <2> QED BY <2>3, <2>5, <2>6, <2>7 DEF OrderInv
<1>6. CASE PollEvent
  <2>1. /\ queue # <<>> /\ hand' = Head(queue) /\ queue' = Tail(queue)
        /\ UNCHANGED <<local, owed, sent, next>>
        BY <1>6 DEF PollEvent, spoolVars, history
  <2>2. /\ hand' \in Events /\ Elements(queue) = {hand'} \cup Elements(queue')
        /\ Sorted(queue') /\ Spool!Before({hand'}, Elements(queue'))
        BY <1>1, <1>3, <2>1, HeadAndTail
  <2>3. Hand' = {hand'} /\ Hand = {}
        BY <1>6, <2>2 DEF Hand, PollEvent, IInv, SizeInv, Polling, TypeOK
  <2>4. InFlight' = InFlight /\ Hand' \cup Elements(queue') = Elements(queue)
        BY <2>1, <2>2, <2>3 DEF InFlight
  <2>5. Spool!Before(Elements(local'), Hand' \cup Elements(queue'))
        BY <1>3, <2>1, <2>4 DEF Spool!Before
  <2> QED BY <1>3, <2>1, <2>2, <2>3, <2>4, <2>5 DEF OrderInv
<1>7. CASE FillBatch
  <2>1. UNCHANGED <<owed, sent, next>> /\ Hand' = {}
        BY <1>7 DEF FillBatch, spoolVars, history, Hand
  <2>2. InFlight' = InFlight
        BY <1>7, <2>1, FillBatchElements DEF InFlight
  <2>3. Sorted(queue') /\ Spool!Before(Elements(local'), Elements(queue'))
        BY <1>7, FillBatchElements
  <2> QED BY <1>3, <2>1, <2>2, <2>3 DEF OrderInv, Spool!Before
<1>8. CASE StashBatch \/ SendAccepted \/ SendRefused
  <2>1. /\ local' = <<>> /\ UNCHANGED <<queue, hand, next>>
        /\ \/ owed' = owed \cup Elements(local) /\ sent' = sent
           \/ owed' = owed /\ sent' = sent
           \/ owed' = owed /\ sent' = sent \cup Elements(local) /\ cpc = "send"
        BY <1>8 DEF StashBatch, SendAccepted, SendRefused, Stash, spoolVars, history, At
  <2>2. cpc = "send" => owed = {}
        BY DEF IInv, RouteInv
  <2>3. Elements(local') = {} /\ Hand' = Hand
        BY <2>1, EmptyHasNone DEF Hand
  <2>4. InFlight' = Hand \cup Elements(queue) /\ InFlight = Elements(local) \cup InFlight'
        BY <2>1, <2>3 DEF InFlight
  <2>5. Spool!Before(sent', owed' \cup InFlight') /\ Spool!Before(owed', InFlight')
        BY <1>3, <2>1, <2>2, <2>4 DEF Spool!Before
  <2>6. /\ Spool!Before(Elements(local'), Hand' \cup Elements(queue'))
        /\ Spool!Before(Hand', Elements(queue')) /\ Sorted(queue')
        BY <1>3, <2>1, <2>3 DEF Spool!Before
  <2>7. Spool!Before(sent' \cup owed' \cup InFlight', {next'})
        BY <1>3, <2>1, <2>4 DEF Spool!Before
  <2> QED BY <2>5, <2>6, <2>7 DEF OrderInv
<1>9. CASE SpoolHandsOver
  <2>1. PICK S \in SUBSET owed : Spool!HandOver(S) /\ sent' = sent \cup S
        BY <1>9 DEF SpoolHandsOver
  <2>2. UNCHANGED <<queue, local, hand, next>>
        BY <1>9 DEF SpoolHandsOver
  <2>3. InFlight' = InFlight /\ Hand' = Hand
        BY <2>2 DEF InFlight, Hand
  <2> QED BY <1>3, <2>1, <2>2, <2>3 DEF OrderInv, Spool!Before, Spool!HandOver
<1>10. CASE SpoolGivesUp
  <2>1. owed' \subseteq owed /\ UNCHANGED <<queue, local, hand, next, sent>>
        BY <1>10 DEF SpoolGivesUp, Spool!GiveUp
  <2>2. InFlight' = InFlight /\ Hand' = Hand
        BY <2>1 DEF InFlight, Hand
  <2> QED BY <1>3, <2>1, <2>2 DEF OrderInv, Spool!Before
<1> QED BY <1>4, <1>5, <1>6, <1>7, <1>8, <1>9, <1>10, Steps

(* What is settled stays settled, and a batch that leaves the buffer is.   *)
LEMMA AccountStep ==
    ASSUME IInv, [Next]_vars
    PROVE  AccountInv'
<1> DEFINE Accepted == (1 .. next - 1) \ rejected
<1>1. next \in Nat /\ next >= 1 /\ Accepted \subseteq Settled \cup InFlight
      BY QueueAssumption DEF IInv, TypeOK, AccountInv
<1>2. Elements(local) \subseteq Events /\ Elements(queue) \subseteq Events /\ Hand \subseteq Events
      BY DEF IInv, TypeOK, Elements, Hand
<1>3. Settled \subseteq Settled'
  <2>1. CASE Control \/ WaitBegin \/ UNCHANGED vars
    <3>1. UNCHANGED <<owed, sent, lost>>
          BY <2>1, ControlMovesNothing DEF WaitBegin, vars, spoolVars, history
    <3> QED BY <3>1 DEF Settled
  <2>2. CASE Log \/ PollEvent \/ FillBatch
        BY <2>2 DEF Log, PollEvent, FillBatch, Settled, spoolVars, history
  <2>3. CASE StashBatch \/ SendAccepted \/ SendRefused
        BY <2>3 DEF StashBatch, SendAccepted, SendRefused, Stash, Settled, spoolVars, history
  <2>4. CASE SpoolHandsOver
        BY <2>4 DEF SpoolHandsOver, Spool!HandOver, Settled
  <2>5. CASE SpoolGivesUp
        BY <2>5 DEF SpoolGivesUp, Spool!GiveUp, Settled
  <2> QED BY <2>1, <2>2, <2>3, <2>4, <2>5, Steps
<1>4. InFlight \subseteq Settled' \cup InFlight'
  <2>1. CASE Control \/ WaitBegin \/ SpoolHandsOver \/ SpoolGivesUp \/ UNCHANGED vars
    <3>1. UNCHANGED <<queue, local, hand>>
          BY <2>1, ControlMovesNothing
          DEF WaitBegin, SpoolHandsOver, SpoolGivesUp, vars
    <3> QED BY <3>1 DEF InFlight, Hand
  <2>2. CASE Log
        BY <2>2, LogEnqueues DEF Log, InFlight, Hand
  <2>3. CASE PollEvent
    <3>1. Elements(queue) = {hand'} \cup Elements(queue') /\ hand' \in Events /\ local' = local
          BY <2>3, HeadAndTail DEF PollEvent, IInv, TypeOK
    <3>2. Hand' = {hand'} /\ Hand = {}
          BY <2>3, <3>1, EventsAreNumbers DEF Hand, PollEvent, IInv, SizeInv, Polling, TypeOK
    <3> QED BY <3>1, <3>2 DEF InFlight
  <2>4. CASE FillBatch
        BY <2>4, FillBatchElements DEF InFlight
  <2>5. CASE StashBatch \/ SendAccepted \/ SendRefused
    <3>1. Elements(local) \subseteq Settled' /\ UNCHANGED <<queue, hand>>
          BY <2>5 DEF StashBatch, SendAccepted, SendRefused, Stash, Settled, spoolVars, history
    <3> QED BY <3>1 DEF InFlight, Hand
  <2> QED BY <2>1, <2>2, <2>3, <2>4, <2>5, Steps
<1>5. Elements(local) \cup Hand \subseteq Settled' \cup Elements(local') \cup Hand'
  <2>1. CASE Control \/ WaitBegin \/ SpoolHandsOver \/ SpoolGivesUp \/ Log \/ UNCHANGED vars
    <3>1. UNCHANGED <<local, hand>>
          BY <2>1, ControlMovesNothing
          DEF WaitBegin, SpoolHandsOver, SpoolGivesUp, Log, vars
    <3> QED BY <3>1 DEF Hand
  <2>2. CASE PollEvent
        BY <2>2 DEF PollEvent, Hand, IInv, SizeInv, Polling
  <2>3. CASE FillBatch
    <3>1. Hand = {hand} /\ hand \in Events
          BY <2>3, FillBatchElements, EventsAreNumbers DEF IInv, TypeOK, Hand
    <3>2. PICK n \in 0 .. Len(queue) : local' = Append(local, hand) \o SubSeq(queue, 1, n)
          BY <2>3, FillBatchTakes
    <3>3. /\ Append(local, hand) \in Seq(Events) /\ SubSeq(queue, 1, n) \in Seq(Events)
          /\ Elements(Append(local, hand)) = Elements(local) \cup {hand}
          BY <3>1, ElementsOfAppend, Split DEF IInv, TypeOK
    <3>4. Elements(local') = Elements(local) \cup {hand} \cup Elements(SubSeq(queue, 1, n))
          BY <3>2, <3>3, ElementsOfConcat
    <3> QED BY <3>1, <3>4
  <2>4. CASE StashBatch \/ SendAccepted \/ SendRefused
        BY <2>4 DEF StashBatch, SendAccepted, SendRefused, Stash, Settled, Hand, spoolVars, history
  <2> QED BY <2>1, <2>2, <2>3, <2>4, Steps
<1>6. Accepted' \subseteq Settled' \cup InFlight' /\ rejected' \subseteq 1 .. next' - 1
      /\ Accepted \subseteq Accepted'
  <2>1. CASE Log
    <3>1. 1 .. next' - 1 = (1 .. next - 1) \cup {next} /\ next \notin 1 .. next - 1
          BY <1>1, <2>1 DEF Log
    <3>2. rejected \subseteq 1 .. next - 1
          BY DEF IInv, AccountInv
    <3>3. CASE Elements(queue') = Elements(queue) \cup {next} /\ rejected' = rejected
          BY <1>1, <1>3, <1>4, <3>1, <3>2, <3>3 DEF InFlight
    <3>4. CASE rejected' = rejected \cup {next}
          BY <1>1, <1>3, <1>4, <3>1, <3>2, <3>4
    <3> QED BY <2>1, <3>3, <3>4, LogEnqueues
  <2>2. CASE ~Log
    <3>1. UNCHANGED <<next, rejected>>
          BY <2>2, Steps, ControlMovesNothing
          DEF PollEvent, FillBatch, StashBatch, SendAccepted, SendRefused, SpoolHandsOver,
              SpoolGivesUp, WaitBegin, vars, spoolVars, history
    <3> QED BY <1>1, <1>3, <1>4, <3>1 DEF IInv, AccountInv
  <2> QED BY <2>1, <2>2
<1>7. (early' = early /\ (wpc' = "off" <=> wpc = "off")) \/ WaitBegin
  <2>1. CASE Control
        BY <2>1, ControlMovesNothing
        DEF Control, WaitForSpool, FollowSpool, GoDirect, WakeUp, PollNothing, Interrupted,
            DispatchBatch, KeepBatch, SendThrows, CheckDrain, SpoolClears, SeesEmptyQueue,
            SeesEmptyBuffer, Stop, Shut
  <2>2. CASE ~Control /\ ~WaitBegin
        BY <2>2, Steps
        DEF Log, PollEvent, FillBatch, StashBatch, SendAccepted, SendRefused, SpoolHandsOver,
            SpoolGivesUp, vars, history
  <2> QED BY <2>1, <2>2
<1>8. early' \subseteq Accepted'
      BY <1>6, <1>7 DEF WaitBegin, IInv, AccountInv
<1>9. wpc' = "off" => ~drain' /\ early' = {}
  <2>1. CASE Control
        BY <1>7, <2>1
        DEF Control, WaitForSpool, FollowSpool, GoDirect, WakeUp, PollNothing, Interrupted,
            DispatchBatch, KeepBatch, SendThrows, CheckDrain, SpoolClears, SeesEmptyQueue,
            SeesEmptyBuffer, Stop, Shut, IInv, AccountInv, WaitBegin
  <2>2. CASE ~Control
        BY <1>7, <2>2, Steps
        DEF Log, PollEvent, FillBatch, StashBatch, SendAccepted, SendRefused, SpoolHandsOver,
            SpoolGivesUp, WaitBegin, Shut, vars, history, IInv, AccountInv
  <2> QED BY <2>1, <2>2
<1>10. wpc' = "seen" => early' \subseteq Settled' \cup Elements(local') \cup Hand'
  <2>1. CASE wpc = "seen" /\ ~WaitBegin
        BY <1>3, <1>5, <1>7, <2>1 DEF IInv, AccountInv
  <2>2. CASE SeesEmptyQueue
    <3>1. Elements(queue') = {} /\ UNCHANGED <<local, hand, early>>
          BY <2>2, EmptyHasNone DEF SeesEmptyQueue, history
    <3> QED BY <1>6, <1>8, <3>1 DEF InFlight
  <2>3. wpc' = "seen" => wpc = "seen" \/ SeesEmptyQueue
        BY Steps
        DEF Control, WaitForSpool, FollowSpool, GoDirect, WakeUp, PollNothing, Interrupted,
            DispatchBatch, KeepBatch, SendThrows, CheckDrain, SpoolClears,
            SeesEmptyBuffer, Stop, Shut, Log, PollEvent, FillBatch, StashBatch, SendAccepted,
            SendRefused, SpoolHandsOver, SpoolGivesUp, WaitBegin, vars
  <2> QED BY <2>1, <2>2, <2>3 DEF WaitBegin, Shut
<1>11. DrainedBeforeExit'
  <2>1. CASE CheckDrain
    <3>1. MayExit /\ wpc # "off" => InFlight' = {}
          BY <2>1, EmptyHasNone
          DEF CheckDrain, MayExit, InFlight, Hand, At, IInv, SizeInv, None
    <3>2. cpc' = "exited" => MayExit /\ wpc # "off"
          BY <2>1 DEF CheckDrain, At, MayExit, IInv, AccountInv
    <3> QED BY <1>6, <1>8, <3>1, <3>2 DEF DrainedBeforeExit
  <2>2. CASE ~CheckDrain
    <3>1. cpc' = "exited" => cpc = "exited"
          BY <2>2, Steps
          DEF Control, WaitForSpool, FollowSpool, GoDirect, WakeUp, PollNothing, Interrupted,
              DispatchBatch, KeepBatch, SendThrows, SpoolClears, SeesEmptyQueue,
              SeesEmptyBuffer, Stop, At, Log, PollEvent, FillBatch, StashBatch, SendAccepted,
              SendRefused, SpoolHandsOver, SpoolGivesUp, WaitBegin, vars
    <3>2. CASE WaitBegin
      <4>1. cpc = "exited" => wpc # "off"
            BY DEF IInv, AccountInv
      <4> QED BY <3>1, <3>2, <4>1 DEF WaitBegin, Shut, DrainedBeforeExit
    <3> QED BY <1>3, <1>7, <3>1, <3>2 DEF IInv, AccountInv, DrainedBeforeExit
  <2> QED BY <2>1, <2>2
<1>12. cpc' = "exited" => wpc' # "off"
  <2>1. CASE CheckDrain
        BY <1>7, <2>1 DEF CheckDrain, At, MayExit, IInv, AccountInv, WaitBegin, Shut
  <2>2. CASE WaitBegin
        BY <2>2 DEF WaitBegin, Shut
  <2>3. CASE ~CheckDrain /\ ~WaitBegin
    <3>1. CASE Control
          BY <1>7, <2>3, <3>1
          DEF Control, WaitForSpool, FollowSpool, GoDirect, WakeUp, PollNothing, Interrupted,
              DispatchBatch, KeepBatch, SendThrows, SpoolClears, SeesEmptyQueue,
              SeesEmptyBuffer, Stop, At, Polling, IInv, AccountInv
    <3>2. CASE ~Control
          BY <1>7, <2>3, <3>2, Steps
          DEF Log, PollEvent, FillBatch, StashBatch, SendAccepted, SendRefused, At,
              SpoolHandsOver, SpoolGivesUp, vars, IInv, AccountInv
    <3> QED BY <3>1, <3>2
  <2> QED BY <2>1, <2>2, <2>3
<1>13. LosesAtMostOne'
  <2>1. CASE wpc \in {"waited", "stopped"}
        BY <1>3, <1>7, <2>1 DEF IInv, AccountInv, LosesAtMostOne, WaitBegin, Shut
  <2>2. CASE SeesEmptyBuffer /\ local = <<>>
    <3>1. early \subseteq Settled \cup Hand
          BY <2>2, EmptyHasNone DEF IInv, AccountInv, SeesEmptyBuffer, Shut
    <3>2. early' = early /\ Settled' = Settled
          BY <2>2 DEF SeesEmptyBuffer, Settled, history, spoolVars
    <3>3. hand \in Events \cup {None} /\ early' \ Settled' \subseteq {hand}
          BY <3>1, <3>2 DEF Hand, IInv, TypeOK
    <3> QED BY <3>3 DEF LosesAtMostOne
  <2>3. wpc' \in {"waited", "stopped"} =>
           wpc \in {"waited", "stopped"} \/ (SeesEmptyBuffer /\ local = <<>>)
    <3>1. CASE SeesEmptyBuffer
          BY <3>1 DEF SeesEmptyBuffer, Shut
    <3>2. CASE Control /\ ~SeesEmptyBuffer
          BY <3>2
          DEF Control, WaitForSpool, FollowSpool, GoDirect, WakeUp, PollNothing, Interrupted,
              DispatchBatch, KeepBatch, SendThrows, CheckDrain, SpoolClears, SeesEmptyQueue,
              Stop, Shut
    <3>3. CASE ~Control
          BY <3>3, Steps
          DEF Log, PollEvent, FillBatch, StashBatch, SendAccepted, SendRefused,
              SpoolHandsOver, SpoolGivesUp, WaitBegin, Shut, vars
    <3> QED BY <3>1, <3>2, <3>3
  <2> QED BY <2>1, <2>2, <2>3 DEF LosesAtMostOne
<1> QED BY <1>6, <1>8, <1>9, <1>10, <1>11, <1>12, <1>13 DEF AccountInv

-----------------------------------------------------------------------------
LEMMA InitInv ==
    ASSUME Init
    PROVE  IInv
<1> USE QueueAssumption DEF Init
<1>1. queue \in Seq(Events) /\ local \in Seq(Events) /\ Len(queue) = 0 /\ Len(local) = 0
      OBVIOUS
<1>2. Hand = {} /\ InFlight = {}
      BY EmptyHasNone DEF Hand, InFlight
<1>3. TypeOK
  <2>1. /\ queue \in Seq(Events) /\ Len(queue) <= MaxQueue
        /\ local \in Seq(Events) /\ Len(local) <= MaxBatch
        BY <1>1
  <2>2. /\ toSpool \in BOOLEAN /\ drain \in BOOLEAN /\ pending \in BOOLEAN
        OBVIOUS
  <2>3. /\ hand \in Events \cup {None}
        /\ next \in 1 .. MaxEvents + 1
        /\ faults \in 0 .. MaxFaults /\ throws \in 0 .. MaxThrows
        OBVIOUS
  <2>4. /\ cpc \in {"top", "wait", "took", "dispatch", "send", "check", "exited", "dead"}
                    \cup Polling
        /\ wpc \in {"off", "wait", "seen", "waited", "stopped"}
        OBVIOUS
  <2>5. /\ owed \subseteq Events /\ sent \subseteq Events /\ lost \subseteq Events
        /\ rejected \subseteq Events /\ early \subseteq Events
        OBVIOUS
  <2> QED BY <2>1, <2>2, <2>3, <2>4, <2>5 DEF TypeOK
<1>4. SizeInv
  <2>1. Len(local) < MaxBatch
        BY <1>1
  <2>2. cpc = "top" /\ hand = None
        OBVIOUS
  <2> QED BY <2>1, <2>2 DEF SizeInv
<1>7. RouteInv
  <2>1. /\ owed = {} /\ toSpool = FALSE /\ local = <<>> /\ cpc = "top"
        OBVIOUS
  <2>2. ASSUME ~SpoolEnabled
        PROVE  ~pending
    <3>1. SpoolEnabled = FALSE
          BY <2>2
    <3>2. pending = FALSE \/ pending = SpoolEnabled
          OBVIOUS
    <3> QED BY <3>1, <3>2
  <2> QED BY <2>1, <2>2 DEF RouteInv
<1>5. OrderInv
      BY <1>2, EmptyHasNone DEF OrderInv, Spool!Before, Sorted
<1>6. AccountInv
      BY DEF AccountInv, DrainedBeforeExit, LosesAtMostOne
<1> QED BY <1>3, <1>4, <1>5, <1>6, <1>7 DEF IInv

LEMMA Invariance == Spec => []IInv
<1>1. IInv /\ [Next]_vars => IInv'
      BY TypeStep, RouteStep, OrderStep, AccountStep DEF IInv
<1> QED BY InitInv, <1>1, PTL DEF Spec

(* Every variable stays in its range; in particular the batch that         *)
(* drainTo() completes never exceeds maxBatchSize.                         *)
THEOREM TypeCorrect == Spec => []TypeOK
<1>1. IInv => TypeOK
      BY DEF IInv
<1> QED BY <1>1, Invariance, PTL

(* run() ends only when everything that log() accepted before              *)
(* waitToComplete() is sent, in the spool, or reported as failed.          *)
THEOREM DrainedOnExit == Spec => []DrainedBeforeExit
<1>1. IInv => DrainedBeforeExit
      BY DEF IInv, AccountInv
<1> QED BY <1>1, Invariance, PTL

(* waitToComplete() returns with at most one accepted event still on its   *)
(* way: the one that poll() gave to the consumer thread.                   *)
THEOREM LosesOneAtMost == Spec => []LosesAtMostOne
<1>1. IInv => LosesAtMostOne
      BY DEF IInv, AccountInv
<1> QED BY <1>1, Invariance, PTL

(* run() and the thread of the file spool together deliver the events in   *)
(* the order in which they were logged.                                    *)
THEOREM DeliveredInOrder == Spec => InOrder
<1> DEFINE Keeps == /\ Spool!Before(sent, sent' \ sent)
                   /\ Spool!Before(owed, owed' \ owed)
<1>1. IInv /\ [Next]_vars => [Keeps]_vars
  <2> SUFFICES ASSUME IInv, [Next]_vars
               PROVE  Keeps
      OBVIOUS
  <2>1. /\ Spool!Before(sent, owed \cup InFlight) /\ Spool!Before(owed, InFlight)
        /\ Elements(local) \subseteq InFlight
        BY DEF IInv, OrderInv, InFlight
  <2>2. sent' \subseteq sent \cup owed \cup InFlight /\ owed' \subseteq owed \cup InFlight
    <3>1. CASE Control \/ WaitBegin \/ UNCHANGED vars
          BY <3>1, ControlMovesNothing DEF WaitBegin, vars, spoolVars, history
    <3>2. CASE Log \/ PollEvent \/ FillBatch
          BY <3>2 DEF Log, PollEvent, FillBatch, spoolVars, history
    <3>3. CASE StashBatch \/ SendAccepted \/ SendRefused
          BY <2>1, <3>3 DEF StashBatch, SendAccepted, SendRefused, Stash, spoolVars, history
    <3>4. CASE SpoolHandsOver
          BY <3>4 DEF SpoolHandsOver, Spool!HandOver
    <3>5. CASE SpoolGivesUp
          BY <3>5 DEF SpoolGivesUp, Spool!GiveUp
    <3> QED BY <3>1, <3>2, <3>3, <3>4, <3>5, Steps
  <2> QED BY <2>1, <2>2 DEF Spool!Before
<1> QED BY <1>1, Invariance, PTL DEF Spec, InOrder
===============================================================================
