------------------------- MODULE AuditPipelineProofs ------------------------
(***************************************************************************)
(* Proofs about AuditPipeline, for any number of threads, destinations,    *)
(* events and keys, and any sizes of the queues.                           *)
(*                                                                         *)
(* An event travels through async, the hand of the async thread, summary   *)
(* and the map, to the records of a destination.  What makes the           *)
(* invariants inductive is that these places hold disjoint stretches of    *)
(* the accepted events, the older ones further on (Ordered).               *)
(***************************************************************************)
EXTENDS AuditPipeline, FiniteSetTheorems, SequenceTheorems, TLAPS

-----------------------------------------------------------------------------
(* Facts about sequences.                                                  *)
Increasing(s) == \A i, j \in DOMAIN s : i < j => s[i] < s[j]

(* Append adds an element to the set of them.                              *)
LEMMA ToSetAppend ==
    ASSUME NEW S, NEW s \in Seq(S), NEW x \in S
    PROVE  /\ Append(s, x) \in Seq(S)
           /\ Append(s, x) # <<>>
           /\ Len(Append(s, x)) = Len(s) + 1
           /\ ToSet(Append(s, x)) = ToSet(s) \cup {x}
<1>1. /\ Append(s, x) \in Seq(S) /\ Append(s, x) # <<>> /\ Len(Append(s, x)) = Len(s) + 1
      /\ \A i \in 1 .. Len(s) : Append(s, x)[i] = s[i]
      /\ Append(s, x)[Len(s) + 1] = x
  BY AppendProperties
<1>2. DOMAIN Append(s, x) = 1 .. Len(s) + 1 /\ DOMAIN s = 1 .. Len(s) /\ Len(s) \in Nat
  BY <1>1, LenProperties
<1> QED BY <1>1, <1>2 DEF ToSet

(* Tail takes the first element away, and nothing else.                    *)
LEMMA ToSetTail ==
    ASSUME NEW S, NEW s \in Seq(S), s # <<>>
    PROVE  /\ Head(s) \in S /\ Tail(s) \in Seq(S)
           /\ Head(s) = s[1] /\ Len(s) \in Nat \ {0} /\ Len(Tail(s)) = Len(s) - 1
           /\ ToSet(s) = {Head(s)} \cup ToSet(Tail(s))
<1>1. /\ Head(s) \in S /\ Tail(s) \in Seq(S) /\ Len(Tail(s)) = Len(s) - 1
      /\ \A i \in 1 .. Len(Tail(s)) : Tail(s)[i] = s[i + 1]
  BY HeadTailProperties
<1>2. /\ Len(s) \in Nat \ {0} /\ DOMAIN s = 1 .. Len(s) /\ DOMAIN Tail(s) = 1 .. Len(s) - 1
  BY <1>1, LenProperties, EmptySeq
<1>3. Head(s) = s[1]
  OBVIOUS
<1>4. ASSUME NEW e \in ToSet(s) PROVE e \in {Head(s)} \cup ToSet(Tail(s))
  <2>1. PICK i \in 1 .. Len(s) : e = s[i]
    BY <1>2 DEF ToSet
  <2>2. CASE i # 1
    <3>1. i - 1 \in 1 .. Len(s) - 1 /\ (i - 1) + 1 = i
      BY <1>2, <2>2
    <3>2. Tail(s)[i - 1] = e
      BY <1>1, <2>1, <3>1
    <3> QED BY <1>2, <3>1, <3>2 DEF ToSet
  <2> QED BY <1>3, <2>1, <2>2
<1>5. ASSUME NEW e \in ToSet(Tail(s)) PROVE e \in ToSet(s)
  <2>1. PICK i \in 1 .. Len(s) - 1 : e = Tail(s)[i]
    BY <1>2 DEF ToSet
  <2>2. e = s[i + 1] /\ i + 1 \in 1 .. Len(s)
    BY <1>1, <1>2, <2>1
  <2> QED BY <1>2, <2>2 DEF ToSet
<1>6. Head(s) \in ToSet(s)
  BY <1>2, <1>3 DEF ToSet
<1> QED BY <1>1, <1>2, <1>3, <1>4, <1>5, <1>6

(* The first element of an increasing sequence is below the others.        *)
LEMMA IncreasingTail ==
    ASSUME NEW S, NEW s \in Seq(S), s # <<>>, Increasing(s)
    PROVE  Increasing(Tail(s)) /\ \A e \in ToSet(Tail(s)) : Head(s) < e
<1>1. /\ Len(Tail(s)) = Len(s) - 1 /\ Tail(s) \in Seq(S) /\ Head(s) = s[1]
      /\ \A i \in 1 .. Len(Tail(s)) : Tail(s)[i] = s[i + 1]
  BY HeadTailProperties
<1>2. /\ Len(s) \in Nat /\ DOMAIN s = 1 .. Len(s) /\ DOMAIN Tail(s) = 1 .. Len(s) - 1
  BY <1>1, LenProperties
<1>3. ASSUME NEW i \in 1 .. Len(s) - 1
      PROVE  i + 1 \in 1 .. Len(s) /\ 1 \in 1 .. Len(s) /\ 1 < i + 1 /\ Tail(s)[i] = s[i + 1]
  BY <1>1, <1>2
<1>4. ASSUME NEW i \in 1 .. Len(s) - 1, NEW j \in 1 .. Len(s) - 1, i < j
      PROVE  Tail(s)[i] < Tail(s)[j]
  <2>1. i + 1 < j + 1
    BY <1>4
  <2> QED BY <1>2, <1>3, <2>1 DEF Increasing
<1> QED BY <1>1, <1>2, <1>3, <1>4 DEF Increasing, ToSet

(* Appending what is above all of an increasing sequence.                  *)
LEMMA IncreasingAppend ==
    ASSUME NEW S, NEW s \in Seq(S), NEW x \in S, Increasing(s), \A e \in ToSet(s) : e < x
    PROVE  Increasing(Append(s, x))
<1>1. /\ Append(s, x) \in Seq(S) /\ Len(Append(s, x)) = Len(s) + 1
      /\ \A i \in 1 .. Len(s) : Append(s, x)[i] = s[i]
      /\ Append(s, x)[Len(s) + 1] = x
  BY AppendProperties
<1>2. DOMAIN Append(s, x) = 1 .. Len(s) + 1 /\ DOMAIN s = 1 .. Len(s) /\ Len(s) \in Nat
  BY <1>1, LenProperties
<1>3. \A i \in 1 .. Len(s) : s[i] \in ToSet(s)
  BY <1>2 DEF ToSet
<1> QED BY <1>1, <1>2, <1>3 DEF Increasing

(* An element that moves from the front of t to the end of s.              *)
LEMMA AppendHead ==
    ASSUME NEW S, NEW s \in Seq(S), NEW t \in Seq(S), t # <<>>
    PROVE  Append(s, Head(t)) \o Tail(t) = s \o t
<1> DEFINE u == Append(s, Head(t))
<1>1. /\ Head(t) \in S /\ Tail(t) \in Seq(S) /\ Len(Tail(t)) = Len(t) - 1 /\ Head(t) = t[1]
      /\ \A i \in 1 .. Len(Tail(t)) : Tail(t)[i] = t[i + 1]
  BY HeadTailProperties
<1>2. /\ u \in Seq(S) /\ Len(u) = Len(s) + 1
      /\ \A i \in 1 .. Len(s) : u[i] = s[i]
      /\ u[Len(s) + 1] = Head(t)
  BY <1>1, AppendProperties
<1>3. Len(s) \in Nat /\ Len(t) \in Nat \ {0}
  BY LenProperties, EmptySeq
<1> HIDE DEF u
<1>4. /\ u \o Tail(t) \in Seq(S) /\ Len(u \o Tail(t)) = Len(u) + Len(Tail(t))
      /\ \A i \in 1 .. Len(u) + Len(Tail(t)) :
            (u \o Tail(t))[i] = IF i <= Len(u) THEN u[i] ELSE Tail(t)[i - Len(u)]
  BY <1>1, <1>2, ConcatProperties
<1>5. /\ s \o t \in Seq(S) /\ Len(s \o t) = Len(s) + Len(t)
      /\ \A i \in 1 .. Len(s) + Len(t) : (s \o t)[i] = IF i <= Len(s) THEN s[i] ELSE t[i - Len(s)]
  BY ConcatProperties
<1>6. Len(u \o Tail(t)) = Len(s \o t)
  BY <1>1, <1>2, <1>3, <1>4, <1>5
<1>7. ASSUME NEW i \in 1 .. Len(s \o t) PROVE (u \o Tail(t))[i] = (s \o t)[i]
  <2>0. i \in 1 .. Len(s) + Len(t) /\ Len(u) = Len(s) + 1 /\ Len(u) + Len(Tail(t)) = Len(s) + Len(t)
    BY <1>1, <1>2, <1>3, <1>5
  <2>1. CASE i <= Len(s)
    BY <1>2, <1>3, <1>4, <1>5, <2>0, <2>1
  <2>2. CASE i = Len(s) + 1
    <3>1. i - Len(s) = 1 /\ ~(i <= Len(s)) /\ i <= Len(u)
      BY <1>3, <2>0, <2>2
    <3>2. (s \o t)[i] = t[i - Len(s)] /\ (u \o Tail(t))[i] = u[i]
      BY <1>4, <1>5, <2>0, <3>1
    <3> QED BY <1>1, <1>2, <2>2, <3>1, <3>2
  <2>3. CASE i > Len(s) + 1
    <3>1. /\ i - Len(u) \in 1 .. Len(Tail(t)) /\ (i - Len(u)) + 1 = i - Len(s)
          /\ ~(i <= Len(s)) /\ ~(i <= Len(u))
      BY <1>1, <1>3, <2>0, <2>3
    <3>2. (s \o t)[i] = t[i - Len(s)] /\ (u \o Tail(t))[i] = Tail(t)[i - Len(u)]
      BY <1>4, <1>5, <2>0, <3>1
    <3> QED BY <1>1, <3>1, <3>2
  <2> QED BY <1>3, <2>0, <2>1, <2>2, <2>3
<1>8. u \o Tail(t) = s \o t
  BY <1>4, <1>5, <1>6, <1>7, SeqEqual
<1> QED BY <1>8 DEF u

(* An element that is appended to the second of two sequences.             *)
LEMMA AppendConcat ==
    ASSUME NEW S, NEW s \in Seq(S), NEW t \in Seq(S), NEW x \in S
    PROVE  s \o Append(t, x) = Append(s \o t, x)
<1>1. <<x>> \in Seq(S) /\ Append(t, x) = t \o <<x>>
  BY AppendIsConcat
<1>2. s \o t \in Seq(S)
  BY ConcatProperties
<1>3. Append(s \o t, x) = (s \o t) \o <<x>>
  BY <1>2, AppendIsConcat
<1>4. s \o (t \o <<x>>) = (s \o t) \o <<x>>
  BY <1>1, ConcatAssociative
<1> QED BY <1>1, <1>3, <1>4

(* An element that moves from the front of t to the end of b, behind s.    *)
LEMMA TakenBehind ==
    \A s, b, t \in Seq(Records) : t # <<>> => (s \o Append(b, Head(t))) \o Tail(t) = (s \o b) \o t
<1> SUFFICES ASSUME NEW s \in Seq(Records), NEW b \in Seq(Records), NEW t \in Seq(Records), t # <<>>
             PROVE  (s \o Append(b, Head(t))) \o Tail(t) = (s \o b) \o t
  OBVIOUS
<1>1. PICK x \in Records : x = Head(t)
  BY ToSetTail
<1>2. s \o Append(b, x) = Append(s \o b, x)
  BY AppendConcat
<1>3. PICK u \in Seq(Records) : u = s \o b
  BY ConcatProperties
<1>4. Append(u, Head(t)) \o Tail(t) = u \o t
  BY AppendHead
<1> QED BY <1>1, <1>2, <1>3, <1>4

-----------------------------------------------------------------------------
(* The inductive invariant, by the parts of the pipeline.                  *)
HostTyped ==
    /\ setup \in Setups /\ logged \in Nat /\ adding \subseteq Loggers
    /\ logged + Cardinality(adding) <= MaxEvents
    /\ async \in Seq(Events) /\ Len(async) + Cardinality(adding) < AsyncSize + Cardinality(Loggers)

(* Destinations are to get something only of a list that is in the hand,   *)
(* and only where there is no summary queue.                               *)
AsyncTyped ==
    /\ asyncThread \in [at : {"loop", "take", "poll", "send", "test", "stop", "ended"}, isDrain : BOOLEAN,
                        interrupted : BOOLEAN, hand : Seq(Events), rest : [dests -> Seq(Events)]]
    /\ asyncThread.at = "send" <=> asyncThread.hand # <<>>
    /\ \A d \in dests : asyncThread.rest[d] # <<>> => ~setup.summary /\ asyncThread.hand # <<>>

SummaryTyped ==
    /\ summary \in Seq(Events) /\ Len(summary) <= SummarySize
    /\ summaryMap \in [Names -> Records]
    /\ summaryThread \in [at : {"none", "loop", "wait", "poll", "check", "send", "test", "stop", "ended", "dead"},
                          isDrain : BOOLEAN, interrupted : BOOLEAN, expired : BOOLEAN, todo : SUBSET Names]
    /\ \A k \in Names : \A e \in summaryMap[k] : EventKey[e] = k
    /\ summaryThread.at = "none" <=> ~setup.summary
    /\ ~setup.summary => summary = <<>> /\ \A k \in Names : summaryMap[k] = {}

BatchTyped ==
    /\ batch \in [dests -> Seq(Records)] /\ buffer \in [dests -> Seq(Records)] /\ sent \in [dests -> Seq(Records)]
    /\ \A d \in dests : Len(batch[d]) <= BatchSize
    /\ batchThread \in [dests -> [isDrain : BOOLEAN, runs : BOOLEAN]]
    /\ failed \in [dests -> Records] /\ dropped \in Records

HookTyped == hook \in [at : {"none", "wait", "done", "halted"}, left : SUBSET dests, on : SUBSET dests]

Typed == HostTyped /\ AsyncTyped /\ SummaryTyped /\ BatchTyped /\ HookTyped

(* The threads end in turn, each when it has passed on what it had.        *)
InTurn ==
    /\ summaryThread.isDrain => asyncThread.at = "ended"
    /\ summaryThread.at \in {"stop", "ended"} =>
        summaryThread.isDrain /\ summary = <<>> /\ \A k \in Names : summaryMap[k] = {}

-----------------------------------------------------------------------------
(* The host and the async queue, and its bound.                            *)
LEMMA HostStep == Typed /\ Next => HostTyped'
<1> SUFFICES ASSUME Typed, Next PROVE HostTyped'
  OBVIOUS
<1> USE DEF Typed, HostTyped
<1>1. CASE \E t \in Loggers : LogFindsRoom(t)
  <2>1. PICK t \in Loggers : LogFindsRoom(t)
    BY <1>1
  <2>2. IsFiniteSet(adding) /\ Cardinality(adding) \in Nat
    BY LoggerAssumption, FS_Subset, FS_CardinalityType
  <2>3. adding' = adding \cup {t} /\ Cardinality(adding') = Cardinality(adding) + 1
    BY <2>1, <2>2, FS_AddElement DEF LogFindsRoom
  <2>4. adding' \subseteq Loggers /\ Cardinality(adding') <= Cardinality(Loggers)
    BY <2>3, LoggerAssumption, FS_Subset
  <2>5. Cardinality(Loggers) \in Nat /\ Len(async) \in Nat
    BY LoggerAssumption, FS_CardinalityType, LenProperties
  <2>6. Len(async) < AsyncSize /\ logged + Cardinality(adding) < MaxEvents
    BY <2>1 DEF LogFindsRoom, HasRoom
  <2>7. UNCHANGED <<setup, logged, async>>
    BY <2>1 DEF LogFindsRoom
  <2> QED BY <2>2, <2>3, <2>4, <2>5, <2>6, <2>7, SizeAssumption
<1>2. CASE \E t \in Loggers : LogAdds(t)
  <2>1. PICK t \in Loggers : LogAdds(t)
    BY <1>2
  <2>2. IsFiniteSet(adding) /\ Cardinality(adding) \in Nat
    BY LoggerAssumption, FS_Subset, FS_CardinalityType
  <2>3. adding' = adding \ {t} /\ Cardinality(adding') = Cardinality(adding) - 1
    BY <2>1, <2>2, FS_RemoveElement DEF LogAdds
  <2>4. adding' \subseteq Loggers /\ IsFiniteSet(adding')
    BY <2>3, LoggerAssumption, FS_Subset
  <2>5. Cardinality(adding') \in Nat
    BY <2>4, FS_CardinalityType
  <2>6. logged' = logged + 1 /\ logged' \in Events
    BY <2>1, <2>2, <2>3, <2>5, SizeAssumption DEF LogAdds, Events
  <2>7. async' \in Seq(Events) /\ Len(async') = Len(async) + 1
    BY <2>1, <2>6, ToSetAppend DEF LogAdds
  <2>8. Cardinality(Loggers) \in Nat /\ Len(async) \in Nat /\ setup' = setup
    BY <2>1, LoggerAssumption, FS_CardinalityType, LenProperties DEF LogAdds
  <2> QED BY <2>2, <2>3, <2>4, <2>5, <2>6, <2>7, <2>8, SizeAssumption
<1>3. CASE AsyncTakes
  <2>1. UNCHANGED <<setup, logged, adding>> /\ (async' = async \/ async' = <<>>)
    BY <1>3 DEF AsyncTakes
  <2>2. Cardinality(adding) \in Nat /\ Cardinality(Loggers) \in Nat /\ Cardinality(adding) <= Cardinality(Loggers)
    BY LoggerAssumption, FS_Subset, FS_CardinalityType
  <2>3. Len(<<>>) = 0 /\ <<>> \in Seq(Events) /\ AsyncSize \in Nat \ {0}
    BY SizeAssumption
  <2>4. CASE async' = <<>>
    <3>1. Len(async') + Cardinality(adding') < AsyncSize + Cardinality(Loggers)
      BY <2>1, <2>2, <2>3, <2>4
    <3> QED BY <2>1, <2>3, <2>4, <3>1
  <2> QED BY <2>1, <2>4
<1>4. CASE UNCHANGED <<setup, logged, adding, async>>
  BY <1>4
<1> QED
  BY <1>1, <1>2, <1>3, <1>4
  DEF Next, Log, AsyncRun, SummaryRun, BatchRun, Hook, AsyncLoop, AsyncToSummary, AsyncToBatch, AsyncTests,
      AsyncStops, SummaryLoop, SummaryPolls, SummaryChecks, SummarySends, SummaryClears, SummaryTests,
      SummaryStops, BatchTakes, BatchSends, BatchEnds, HookStarts, HookDrains, HookSeesEmpty, HookStops, Halt

(* The async queue's thread.                                               *)
LEMMA AsyncStep == Typed /\ Next => AsyncTyped'
<1> SUFFICES ASSUME Typed, Next PROVE AsyncTyped'
  OBVIOUS
<1> USE DEF AsyncTyped
<1>0. /\ AsyncTyped /\ setup' = setup /\ async \in Seq(Events)
  BY DEF Typed, HostTyped, Next, Log, AsyncRun, SummaryRun, BatchRun, Hook, LogFindsRoom, LogAdds, AsyncLoop, AsyncTakes,
         AsyncToSummary, AsyncToBatch, AsyncTests, AsyncStops, SummaryLoop, SummaryPolls, SummaryChecks,
         SummarySends, SummaryClears, SummaryTests, SummaryStops, BatchTakes, BatchSends, BatchEnds,
         HookStarts, HookDrains, HookSeesEmpty, HookStops, Halt
<1>a. dests' = dests /\ Multi' = Multi
  BY <1>0 DEF dests, Multi
<1>b. ASSUME asyncThread.hand # <<>>
      PROVE  Tail(asyncThread.hand) \in Seq(Events)
  BY <1>0, <1>b, ToSetTail
<1>1. CASE AsyncLoop
  BY <1>0, <1>a, <1>1 DEF AsyncLoop, AsyncAt
<1>2. CASE AsyncTakes
  <2>1. asyncThread.hand = <<>> /\ <<>> \in Seq(Events)
    BY <1>0, <1>2 DEF AsyncTakes, AsyncAt
  <2>2. \/ asyncThread' = [asyncThread EXCEPT !.at = "test", !.interrupted = FALSE]
        \/ asyncThread' = [asyncThread EXCEPT !.at = "test"]
        \/ /\ async # <<>>
           /\ asyncThread' = [asyncThread EXCEPT !.at = "send", !.hand = async,
                                !.rest = [d \in dests |-> IF setup.summary THEN <<>> ELSE async]]
    BY <1>2 DEF AsyncTakes, Taken
  <2>3. CASE /\ async # <<>>
             /\ asyncThread' = [asyncThread EXCEPT !.at = "send", !.hand = async,
                                !.rest = [d \in dests |-> IF setup.summary THEN <<>> ELSE async]]
    <3>1. [d \in dests |-> IF setup.summary THEN <<>> ELSE async] \in [dests -> Seq(Events)]
      BY <1>0, <2>1
    <3>2. PICK r \in [dests -> Seq(Events)] : r = [d \in dests |-> IF setup.summary THEN <<>> ELSE async]
      BY <3>1
    <3>3. /\ asyncThread' = [asyncThread EXCEPT !.at = "send", !.hand = async, !.rest = r]
          /\ \A d \in dests : r[d] # <<>> => ~setup.summary
      BY <2>3, <3>2
    <3> QED BY <1>0, <1>a, <2>3, <3>3
  <2> QED BY <1>0, <1>a, <2>1, <2>2, <2>3
<1>3. CASE AsyncToSummary
  <2>1. asyncThread.hand # <<>> /\ setup.summary
    BY <1>0, <1>3 DEF AsyncToSummary, AsyncAt
  <2>2. PICK h \in Seq(Events) : asyncThread' = AfterSend(h)
    <3>1. <<>> \in Seq(Events)
      OBVIOUS
    <3> QED BY <1>3, <1>b, <2>1, <3>1 DEF AsyncToSummary
  <2>3. asyncThread' = [asyncThread EXCEPT !.hand = h, !.at = IF h = <<>> THEN "test" ELSE "send"]
    BY <2>2 DEF AfterSend
  <2> QED BY <1>0, <1>a, <2>1, <2>3
<1>4. CASE \E d \in dests : AsyncToBatch(d)
  <2>1. PICK d \in dests : AsyncToBatch(d)
    BY <1>4
  <2>2. /\ asyncThread.hand # <<>> /\ ~setup.summary
        /\ asyncThread.rest[d] # <<>> /\ asyncThread.rest[d] \in Seq(Events)
    BY <1>0, <2>1 DEF AsyncToBatch, AsyncAt
  <2>3. PICK t \in Seq(Events) : asyncThread' = AfterGiving(Given(d, t))
    <3>1. Tail(asyncThread.rest[d]) \in Seq(Events) /\ <<>> \in Seq(Events)
      BY <2>2, ToSetTail
    <3> QED BY <2>1, <3>1 DEF AsyncToBatch
  <2>4. Given(d, t) \in [dests -> Seq(Events)]
    BY <1>0 DEF Given
  <2>5. CASE \A c \in dests : Given(d, t)[c] = <<>>
    <3>1. asyncThread' = [asyncThread EXCEPT !.hand = <<>>, !.at = "test", !.rest = Given(d, t)]
      BY <1>0, <2>3, <2>5 DEF AfterGiving, AfterSend
    <3> QED BY <1>0, <1>a, <2>4, <2>5, <3>1
  <2>6. CASE ~\A c \in dests : Given(d, t)[c] = <<>>
    <3>1. asyncThread' = [asyncThread EXCEPT !.hand = asyncThread.hand, !.at = "send", !.rest = Given(d, t)]
      BY <1>0, <2>2, <2>3, <2>6 DEF AfterGiving, AfterSend
    <3> QED BY <1>0, <1>a, <2>2, <2>4, <3>1
  <2> QED BY <2>5, <2>6
<1>5. CASE AsyncTests
  BY <1>0, <1>a, <1>5 DEF AsyncTests, AsyncAt
<1>6. CASE AsyncStops
  BY <1>0, <1>a, <1>6 DEF AsyncStops, AsyncAt
<1>7. CASE HookStops
  BY <1>0, <1>a, <1>7 DEF HookStops
<1>8. CASE UNCHANGED asyncThread
  BY <1>0, <1>a, <1>8
<1> QED
  BY <1>1, <1>2, <1>3, <1>4, <1>5, <1>6, <1>7, <1>8
  DEF Next, Log, AsyncRun, SummaryRun, BatchRun, Hook, LogFindsRoom, LogAdds, SummaryLoop, SummaryPolls, SummaryChecks,
      SummarySends, SummaryClears, SummaryTests, SummaryStops, BatchTakes, BatchSends, BatchEnds,
      HookStarts, HookDrains, HookSeesEmpty, Halt

(* The summary queue, its map and its thread.                              *)
LEMMA SummaryStep == Typed /\ Next => SummaryTyped'
<1> SUFFICES ASSUME Typed, Next PROVE SummaryTyped'
  OBVIOUS
<1> USE DEF SummaryTyped
<1>0. /\ SummaryTyped /\ setup' = setup /\ AsyncTyped /\ EventKey' = EventKey
  BY DEF Typed, Next, Log, AsyncRun, SummaryRun, BatchRun, Hook, LogFindsRoom, LogAdds, AsyncLoop, AsyncTakes,
         AsyncToSummary, AsyncToBatch, AsyncTests, AsyncStops, SummaryLoop, SummaryPolls, SummaryChecks,
         SummarySends, SummaryClears, SummaryTests, SummaryStops, BatchTakes, BatchSends, BatchEnds,
         HookStarts, HookDrains, HookSeesEmpty, HookStops, Halt, EventKey
<1>1. CASE AsyncToSummary
  <2>1. asyncThread.hand # <<>> /\ setup.summary
    BY <1>0, <1>1 DEF AsyncToSummary, AsyncAt, AsyncTyped
  <2>2. Head(asyncThread.hand) \in Events
    BY <1>0, <2>1, ToSetTail DEF AsyncTyped
  <2>3. CASE summary' = summary
    BY <1>0, <1>1, <2>3 DEF AsyncToSummary
  <2>4. CASE Len(summary) < SummarySize /\ summary' = Append(summary, Head(asyncThread.hand))
    <3>1. summary' \in Seq(Events) /\ Len(summary') = Len(summary) + 1 /\ Len(summary) \in Nat
      BY <1>0, <2>2, <2>4, ToSetAppend, LenProperties
    <3>2. Len(summary') <= SummarySize
      BY <2>4, <3>1, SizeAssumption
    <3> QED BY <1>0, <1>1, <2>1, <3>1, <3>2 DEF AsyncToSummary
  <2> QED BY <1>1, <2>3, <2>4 DEF AsyncToSummary
<1>2. CASE AsyncStops
  <2>1. \/ summaryThread' = summaryThread
        \/ summaryThread' = [summaryThread EXCEPT !.isDrain = TRUE, !.interrupted = TRUE]
    BY <1>2 DEF AsyncStops
  <2>2. UNCHANGED <<summary, summaryMap>>
    BY <1>2 DEF AsyncStops
  <2> QED BY <1>0, <2>1, <2>2
<1>3. CASE SummaryLoop
  BY <1>0, <1>3 DEF SummaryLoop, SummaryAt
<1>4. CASE SummaryPolls
  <2>1. /\ summaryThread' \in [at : {"check"}, isDrain : BOOLEAN, interrupted : BOOLEAN,
                               expired : BOOLEAN, todo : SUBSET Names]
        /\ summaryThread.at # "none"
    BY <1>0, <1>4 DEF SummaryPolls, SummaryAt
  <2>2. CASE UNCHANGED <<summary, summaryMap>>
    BY <1>0, <1>4, <2>1, <2>2 DEF SummaryPolls
  <2>3. CASE /\ summaryMap' = [k \in Names |-> summaryMap[k] \cup {e \in ToSet(summary) : EventKey[e] = k}]
             /\ summary' = <<>>
    <3>1. ToSet(summary) \subseteq Events
      BY <1>0, LenProperties, ElementOfSeq DEF ToSet
    <3>2. summaryMap' \in [Names -> Records]
      BY <1>0, <2>3, <3>1 DEF Records
    <3>3. \A k \in Names : \A e \in summaryMap'[k] : EventKey[e] = k
      BY <1>0, <2>3
    <3>4. summary' \in Seq(Events) /\ Len(summary') = 0
      BY <2>3
    <3> QED BY <1>0, <2>1, <3>2, <3>3, <3>4, SizeAssumption
  <2> QED BY <1>4, <2>2, <2>3 DEF SummaryPolls
<1>5. CASE SummaryChecks
  BY <1>0, <1>5 DEF SummaryChecks, SummaryAt
<1>6. CASE \E k \in Names : SummarySends(k)
  BY <1>0, <1>6 DEF SummarySends, SummaryAt
<1>7. CASE SummaryClears
  <2>1. summaryMap' = [k \in Names |-> {}]
    BY <1>7 DEF SummaryClears, Kept
  <2> QED BY <1>0, <1>7, <2>1 DEF SummaryClears, SummaryAt, Records
<1>8. CASE SummaryTests
  BY <1>0, <1>8 DEF SummaryTests, SummaryAt
<1>9. CASE SummaryStops
  BY <1>0, <1>9 DEF SummaryStops, SummaryAt
<1>10. CASE UNCHANGED <<summary, summaryMap, summaryThread>>
  BY <1>0, <1>10
<1> QED
  BY <1>1, <1>2, <1>3, <1>4, <1>5, <1>6, <1>7, <1>8, <1>9, <1>10
  DEF Next, Log, AsyncRun, SummaryRun, BatchRun, Hook, LogFindsRoom, LogAdds, AsyncLoop, AsyncTakes, AsyncToBatch,
      AsyncTests, BatchTakes, BatchSends, BatchEnds, HookStarts, HookDrains, HookSeesEmpty, HookStops, Halt

(* One record more at some destinations.                                   *)
LEMMA PutTyped ==
    ASSUME Typed, NEW r \in Records, NEW ds, Put(r, ds)
    PROVE  batch' \in [dests -> Seq(Records)] /\ \A d \in dests : Len(batch'[d]) <= BatchSize
<1>0. batch \in [dests -> Seq(Records)] /\ \A d \in dests : Len(batch[d]) <= BatchSize
  BY DEF Typed, BatchTyped
<1>1. batch' = [d \in dests |-> IF d \in ds /\ Room(d) THEN Append(batch[d], r) ELSE batch[d]]
  BY DEF Put
<1>2. ASSUME NEW d \in dests, d \in ds, Room(d)
      PROVE  Append(batch[d], r) \in Seq(Records) /\ Len(Append(batch[d], r)) <= BatchSize
  <2>1. Append(batch[d], r) \in Seq(Records) /\ Len(Append(batch[d], r)) = Len(batch[d]) + 1
    BY <1>0, ToSetAppend
  <2>2. Len(batch[d]) \in Nat /\ Len(batch[d]) < BatchSize
    BY <1>0, <1>2, LenProperties DEF Room
  <2> QED BY <2>1, <2>2, SizeAssumption
<1> QED BY <1>0, <1>1, <1>2

(* The batch queues, and what is given up.                                 *)
LEMMA BatchStep == Typed /\ Next => BatchTyped'
<1> SUFFICES ASSUME Typed, Next PROVE BatchTyped'
  OBVIOUS
<1> USE DEF BatchTyped
<1>0. /\ BatchTyped /\ AsyncTyped /\ SummaryTyped /\ HookTyped /\ setup' = setup
  BY DEF Typed, Next, Log, AsyncRun, SummaryRun, BatchRun, Hook, LogFindsRoom, LogAdds, AsyncLoop, AsyncTakes,
         AsyncToSummary, AsyncToBatch, AsyncTests, AsyncStops, SummaryLoop, SummaryPolls, SummaryChecks,
         SummarySends, SummaryClears, SummaryTests, SummaryStops, BatchTakes, BatchSends, BatchEnds,
         HookStarts, HookDrains, HookSeesEmpty, HookStops, Halt
<1>a. dests' = dests
  BY <1>0 DEF dests
<1>b. ToSet(asyncThread.hand) \in Records
  BY <1>0, LenProperties, ElementOfSeq DEF ToSet, AsyncTyped, Records
<1>c. ASSUME NEW events \in Records, NEW ds, Report(events, ds)
      PROVE  failed' \in [dests -> Records]
  <2>1. failed' = [d \in dests |-> IF d \in ds THEN failed[d] \cup events ELSE failed[d]]
    BY <1>c DEF Report
  <2> QED BY <1>0, <2>1 DEF Records
<1>1. CASE AsyncToSummary
  <2>1. dropped' \in Records
    BY <1>0, <1>1, <1>b DEF AsyncToSummary, Records
  <2> QED BY <1>0, <1>1, <1>a, <2>1 DEF AsyncToSummary
<1>2. CASE \E d \in dests : AsyncToBatch(d)
  <2>1. PICK d \in dests : AsyncToBatch(d)
    BY <1>2
  <2>2. asyncThread.rest[d] \in Seq(Events) /\ asyncThread.rest[d] # <<>>
    BY <1>0, <2>1 DEF AsyncToBatch, AsyncTyped
  <2>3. {Head(asyncThread.rest[d])} \in Records /\ ToSet(asyncThread.rest[d]) \in Records
    BY <2>2, ToSetTail, LenProperties, ElementOfSeq DEF Records, ToSet
  <2>4. batch' \in [dests -> Seq(Records)] /\ \A c \in dests : Len(batch'[c]) <= BatchSize
    <3>1. CASE batch' = batch
      BY <1>0, <3>1
    <3>2. CASE Put({Head(asyncThread.rest[d])}, {d})
      BY <2>3, <3>2, PutTyped
    <3> QED BY <2>1, <3>1, <3>2 DEF AsyncToBatch
  <2>5. failed' \in [dests -> Records]
    BY <1>0, <1>b, <1>c, <2>1 DEF AsyncToBatch
  <2>6. dropped' \in Records
    BY <1>0, <2>1, <2>3 DEF AsyncToBatch, Records
  <2>7. UNCHANGED <<sent, buffer, batchThread>>
    BY <2>1 DEF AsyncToBatch
  <2> QED BY <1>0, <1>a, <2>4, <2>5, <2>6, <2>7
<1>3. CASE \E k \in Names : SummarySends(k)
  <2>1. PICK k \in Names : SummarySends(k)
    BY <1>3
  <2>2. summaryMap[k] \in Records
    BY <1>0 DEF SummaryTyped
  <2>3. batch' \in [dests -> Seq(Records)] /\ \A d \in dests : Len(batch'[d]) <= BatchSize
    BY <2>1, <2>2, PutTyped DEF SummarySends
  <2>4. failed' \in [dests -> Records]
    BY <1>0, <2>1, <2>2, <1>c DEF SummarySends
  <2>5. UNCHANGED <<sent, buffer, batchThread, dropped>>
    BY <2>1 DEF SummarySends
  <2> QED BY <1>0, <1>a, <2>3, <2>4, <2>5
<1>4. CASE AsyncStops \/ SummaryStops \/ \E d \in dests : BatchEnds(d) \/ HookDrains(d)
  <2>1. batchThread' \in [dests -> [isDrain : BOOLEAN, runs : BOOLEAN]]
    <3>1. CASE StopBatches
      BY <1>0, <3>1 DEF StopBatches
    <3>2. CASE \E d \in dests : BatchEnds(d)
      BY <1>0, <3>2 DEF BatchEnds
    <3>3. CASE \E d \in dests : HookDrains(d)
      BY <1>0, <3>3 DEF HookDrains
    <3>4. CASE batchThread' = batchThread
      BY <1>0, <3>4
    <3> QED BY <1>4, <3>1, <3>2, <3>3, <3>4 DEF AsyncStops, SummaryStops
  <2>2. UNCHANGED <<batch, buffer, sent, failed, dropped>>
    BY <1>4 DEF AsyncStops, SummaryStops, BatchEnds, HookDrains
  <2> QED BY <1>0, <1>a, <2>1, <2>2
<1>5. CASE \E d \in dests : BatchTakes(d)
  <2>1. PICK d \in dests : BatchTakes(d)
    BY <1>5
  <2>2. batch[d] \in Seq(Records) /\ buffer[d] \in Seq(Records) /\ batch[d] # <<>>
    BY <1>0, <2>1 DEF BatchTakes
  <2>3. /\ Tail(batch[d]) \in Seq(Records) /\ Len(Tail(batch[d])) = Len(batch[d]) - 1 /\ Len(batch[d]) \in Nat
        /\ Append(buffer[d], Head(batch[d])) \in Seq(Records)
    <3>1. Head(batch[d]) \in Records /\ Tail(batch[d]) \in Seq(Records)
          /\ Len(Tail(batch[d])) = Len(batch[d]) - 1 /\ Len(batch[d]) \in Nat
      BY <2>2, ToSetTail
    <3> QED BY <2>2, <3>1, ToSetAppend
  <2>4. /\ batch' = [batch EXCEPT ![d] = Tail(batch[d])]
        /\ buffer' = [buffer EXCEPT ![d] = Append(buffer[d], Head(batch[d]))]
    BY <2>1 DEF BatchTakes
  <2>5. UNCHANGED <<batchThread, sent, failed, dropped>>
    BY <2>1 DEF BatchTakes
  <2>6. batch' \in [dests -> Seq(Records)] /\ buffer' \in [dests -> Seq(Records)]
    BY <1>0, <2>3, <2>4
  <2>7. \A c \in dests : Len(batch'[c]) <= BatchSize
    BY <1>0, <2>3, <2>4, SizeAssumption
  <2> QED BY <1>0, <1>a, <2>5, <2>6, <2>7
<1>6. CASE \E d \in dests : BatchSends(d)
  <2>1. PICK d \in dests : BatchSends(d)
    BY <1>6
  <2>2. sent[d] \o buffer[d] \in Seq(Records) /\ <<>> \in Seq(Records)
    BY <1>0, ConcatProperties
  <2>3. sent' \in [dests -> Seq(Records)] /\ buffer' \in [dests -> Seq(Records)]
    BY <1>0, <2>1, <2>2 DEF BatchSends
  <2>4. batchThread' \in [dests -> [isDrain : BOOLEAN, runs : BOOLEAN]]
    BY <1>0, <2>1 DEF BatchSends
  <2>5. UNCHANGED <<batch, failed, dropped>>
    BY <2>1 DEF BatchSends
  <2> QED BY <1>0, <1>a, <2>3, <2>4, <2>5
<1>7. CASE UNCHANGED <<batch, buffer, sent, batchThread, failed, dropped>>
  BY <1>0, <1>a, <1>7
<1> QED
  BY <1>1, <1>2, <1>3, <1>4, <1>5, <1>6, <1>7
  DEF Next, Log, AsyncRun, SummaryRun, BatchRun, Hook, LogFindsRoom, LogAdds, AsyncLoop, AsyncTakes, AsyncTests,
      SummaryLoop, SummaryPolls, SummaryChecks, SummaryClears, SummaryTests, HookStarts, HookSeesEmpty, HookStops, Halt

(* The shutdown hook.                                                      *)
LEMMA HookStep == Typed /\ Next => HookTyped'
<1> SUFFICES ASSUME HookTyped, Next PROVE HookTyped'
  BY DEF Typed
<1>1. dests' = dests
  BY DEF dests, Next, Log, AsyncRun, SummaryRun, BatchRun, Hook, LogFindsRoom, LogAdds, AsyncLoop, AsyncTakes,
         AsyncToSummary, AsyncToBatch, AsyncTests, AsyncStops, SummaryLoop, SummaryPolls, SummaryChecks,
         SummarySends, SummaryClears, SummaryTests, SummaryStops, BatchTakes, BatchSends, BatchEnds,
         HookStarts, HookDrains, HookSeesEmpty, HookStops, Halt
<1>2. CASE HookStarts
  BY <1>1, <1>2 DEF HookStarts, HookTyped
<1>3. CASE \E d \in dests : HookDrains(d)
  <2>1. PICK d \in dests : HookDrains(d)
    BY <1>3
  <2>2. hook' = [hook EXCEPT !.on = {d}, !.left = hook.left \ {d}]
    BY <2>1 DEF HookDrains
  <2> QED BY <1>1, <2>2 DEF HookTyped
<1>4. CASE \E d \in dests : HookSeesEmpty(d)
  BY <1>1, <1>4 DEF HookSeesEmpty, HookTyped
<1>5. CASE HookStops \/ Halt
  BY <1>1, <1>5 DEF HookStops, Halt, HookTyped
<1>6. CASE UNCHANGED hook
  BY <1>1, <1>6 DEF HookTyped
<1> QED
  BY <1>2, <1>3, <1>4, <1>5, <1>6
  DEF Next, Log, AsyncRun, SummaryRun, BatchRun, Hook, LogFindsRoom, LogAdds, AsyncLoop, AsyncTakes,
      AsyncToSummary, AsyncToBatch, AsyncTests, AsyncStops, SummaryLoop, SummaryPolls, SummaryChecks,
      SummarySends, SummaryClears, SummaryTests, SummaryStops, BatchTakes, BatchSends, BatchEnds

-----------------------------------------------------------------------------
(* The threads end in turn.                                                *)
LEMMA InTurnStep == Typed /\ InTurn /\ Next => InTurn'
<1> SUFFICES ASSUME Typed, InTurn, Next PROVE InTurn'
  OBVIOUS
<1> USE DEF InTurn
<1>0. AsyncTyped /\ SummaryTyped
  BY DEF Typed
<1>1. CASE AsyncLoop \/ AsyncTakes \/ AsyncTests \/ (\E d \in dests : AsyncToBatch(d))
  <2>1. asyncThread.at # "ended" /\ UNCHANGED <<summary, summaryMap, summaryThread>>
    BY <1>1 DEF AsyncLoop, AsyncTakes, AsyncTests, AsyncToBatch, AsyncAt
  <2> QED BY <2>1
<1>2. CASE AsyncToSummary
  BY <1>2 DEF AsyncToSummary, AsyncAt
<1>3. CASE AsyncStops
  <2>1. /\ asyncThread' = [asyncThread EXCEPT !.at = "ended"] /\ asyncThread.at = "stop"
        /\ \/ summaryThread' = summaryThread
           \/ summaryThread' = [summaryThread EXCEPT !.isDrain = TRUE, !.interrupted = TRUE]
        /\ UNCHANGED <<summary, summaryMap>>
    BY <1>3 DEF AsyncStops, AsyncAt
  <2>2. asyncThread'.at = "ended"
    BY <1>0, <2>1 DEF AsyncTyped
  <2> QED BY <1>0, <2>1, <2>2 DEF SummaryTyped
<1>4. CASE SummaryLoop
  BY <1>0, <1>4 DEF SummaryLoop, SummaryAt, SummaryTyped
<1>5. CASE SummaryPolls
  <2>1. /\ summaryThread'.at = "check" /\ summaryThread'.isDrain = summaryThread.isDrain
        /\ asyncThread' = asyncThread
    BY <1>0, <1>5 DEF SummaryPolls, SummaryAt, SummaryTyped
  <2> QED BY <2>1
<1>6. CASE SummaryChecks
  BY <1>0, <1>6 DEF SummaryChecks, SummaryAt, SummaryTyped
<1>7. CASE \E k \in Names : SummarySends(k)
  BY <1>0, <1>7 DEF SummarySends, SummaryAt, SummaryTyped
<1>8. CASE SummaryClears
  BY <1>0, <1>8 DEF SummaryClears, SummaryAt, SummaryTyped
<1>9. CASE SummaryTests
  BY <1>0, <1>9 DEF SummaryTests, SummaryAt, SummaryIsDone, SummaryTyped
<1>10. CASE SummaryStops
  BY <1>0, <1>10 DEF SummaryStops, SummaryAt, SummaryTyped
<1>11. CASE HookStops
  BY <1>0, <1>11 DEF HookStops, AsyncTyped
<1>12. CASE UNCHANGED <<asyncThread, summary, summaryMap, summaryThread>>
  BY <1>12
<1> QED
  BY <1>1, <1>2, <1>3, <1>4, <1>5, <1>6, <1>7, <1>8, <1>9, <1>10, <1>11, <1>12
  DEF Next, Log, AsyncRun, SummaryRun, BatchRun, Hook, LogFindsRoom, LogAdds, BatchTakes, BatchSends, BatchEnds,
      HookStarts, HookDrains, HookSeesEmpty, Halt

-----------------------------------------------------------------------------
(* What a step does to the places where events are, as sets, as one        *)
(* destination sees it.                                                    *)
Queued   == ToSet(async)
Whole    == ToSet(asyncThread.hand)
Handed(d) == ToSet(Rest(d))
Summed   == ToSet(summary)
Mapped   == {e \in Events : InMap(e)}

Gains(d, r) == RecordsFor(d)' = Append(RecordsFor(d), r) /\ failed'[d] = failed[d]
Loses(d, E) == RecordsFor(d)' = RecordsFor(d) /\ failed'[d] = failed[d] \cup E
Quiet(d)    == RecordsFor(d)' = RecordsFor(d) /\ failed'[d] = failed[d]

(* The list leaves the hand when every destination has got it.             *)
HandKept(d) == Whole' = Whole \/ (Whole' = {} /\ Handed(d)' = {})

Passes(d, h) == h \in Handed(d) /\ Handed(d)' = Handed(d) \ {h} /\ \A e \in Handed(d)' : h < e

Still(d) == Quiet(d) /\ HandKept(d) /\ UNCHANGED <<logged, Queued, Handed(d), Summed, Mapped, dropped>>

Accepts(d) ==
    /\ logged' = logged + 1
    /\ Queued' = Queued \cup {logged + 1}
    /\ Quiet(d) /\ UNCHANGED <<Whole, Handed(d), Summed, Mapped, dropped>>

Takes(d) ==
    /\ Handed(d) = {} /\ Handed(d)' = Queued /\ Whole' = Queued /\ Queued' = {}
    /\ Quiet(d) /\ UNCHANGED <<logged, Summed, Mapped, dropped>>

Summarises(d) ==
    /\ \E h \in Handed(d) : Passes(d, h) /\ Summed' = Summed \cup {h}
    /\ Whole = Handed(d) /\ Whole' = Handed(d)'
    /\ Quiet(d) /\ UNCHANGED <<logged, Queued, Mapped, dropped>>

Refuses(d) ==
    /\ Handed(d)' = {} /\ Whole' = {} /\ dropped' = dropped \cup Handed(d)
    /\ Quiet(d) /\ UNCHANGED <<logged, Queued, Summed, Mapped>>

Delivers(d) ==
    /\ Summed = {} /\ Mapped = {}
    /\ \E h \in Handed(d) : Passes(d, h) /\ Gains(d, {h})
    /\ HandKept(d) /\ UNCHANGED <<logged, Queued, Summed, Mapped, dropped>>

Fails(d) ==
    /\ Multi /\ ~setup.summary
    /\ Summed = {} /\ Mapped = {}
    /\ Handed(d) # {} /\ Handed(d)' = {} /\ Loses(d, Whole)
    /\ HandKept(d) /\ UNCHANGED <<logged, Queued, Summed, Mapped, dropped>>

Counts(d) ==
    /\ Mapped' = Mapped \cup Summed /\ Summed' = {}
    /\ Quiet(d) /\ UNCHANGED <<logged, Queued, Whole, Handed(d), dropped>>

Sends(d) ==
    /\ \E k \in Names :
        LET r == {e \in Mapped : EventKey[e] = k}
        IN  Mapped' = Mapped \ r /\ (Gains(d, r) \/ Loses(d, r))
    /\ UNCHANGED <<logged, Queued, Whole, Handed(d), Summed, dropped>>

(* A record more of a batch queue is one more at the end.                  *)
LEMMA PutGains ==
    ASSUME Typed, NEW r \in Records, NEW ds, Put(r, ds), sent' = sent, buffer' = buffer, NEW d \in dests
    PROVE  /\ d \in ds /\ Room(d) => RecordsFor(d)' = Append(RecordsFor(d), r)
           /\ ~(d \in ds /\ Room(d)) => RecordsFor(d)' = RecordsFor(d)
<1>1. batch' = [c \in dests |-> IF c \in ds /\ Room(c) THEN Append(batch[c], r) ELSE batch[c]]
  BY DEF Put
<1>2. CASE d \in ds /\ Room(d)
  <2>1. sent[d] \in Seq(Records) /\ buffer[d] \in Seq(Records) /\ batch[d] \in Seq(Records)
    BY DEF Typed, BatchTyped
  <2>2. (sent[d] \o buffer[d]) \o Append(batch[d], r) = Append((sent[d] \o buffer[d]) \o batch[d], r)
    <3>1. PICK u \in Seq(Records) : u = sent[d] \o buffer[d]
      BY <2>1, ConcatProperties
    <3>2. u \o Append(batch[d], r) = Append(u \o batch[d], r)
      BY <2>1, AppendConcat
    <3> QED BY <3>1, <3>2
  <2>3. batch'[d] = Append(batch[d], r) /\ sent'[d] = sent[d] /\ buffer'[d] = buffer[d]
    BY <1>1, <1>2
  <2> QED BY <1>2, <2>2, <2>3 DEF RecordsFor
<1>3. CASE ~(d \in ds /\ Room(d))
  <2>1. batch'[d] = batch[d]
    BY <1>1, <1>3
  <2> QED BY <1>3, <2>1 DEF RecordsFor
<1> QED BY <1>2, <1>3

(* The first of an increasing list, and the others.                        *)
LEMMA HeadOfList ==
    ASSUME NEW s \in Seq(Events), s # <<>>, Increasing(s)
    PROVE  /\ Head(s) \in ToSet(s) /\ Head(s) \in Events
           /\ ToSet(Tail(s)) = ToSet(s) \ {Head(s)}
           /\ \A e \in ToSet(Tail(s)) : Head(s) < e
<1>1. Head(s) \in Events /\ ToSet(s) = {Head(s)} \cup ToSet(Tail(s))
  BY ToSetTail
<1>2. \A e \in ToSet(Tail(s)) : Head(s) < e
  BY IncreasingTail
<1>3. Head(s) \notin ToSet(Tail(s))
  BY <1>1, <1>2 DEF Events
<1> QED BY <1>1, <1>2, <1>3

(* What log and the async queue's thread do.                               *)
LEMMA AsyncEffects ==
    ASSUME Typed, NEW d \in dests, Increasing(Rest(d)),
           (\E t \in Loggers : LogAdds(t)) \/ AsyncTakes \/ AsyncToSummary
    PROVE  Still(d) \/ Accepts(d) \/ Takes(d) \/ Summarises(d) \/ Refuses(d)
<1>0. HostTyped /\ AsyncTyped /\ SummaryTyped /\ BatchTyped
  BY DEF Typed
<1>1. ASSUME UNCHANGED <<setup, sent, buffer, batch, failed>>
      PROVE  Quiet(d)
  BY <1>1 DEF Quiet, RecordsFor
<1>2. ASSUME UNCHANGED <<setup, summaryMap, summaryThread>>
      PROVE  Mapped' = Mapped
  BY <1>2 DEF Mapped, InMap, EventKey
<1>e. ToSet(<<>>) = {}
  BY DEF ToSet
<1>4. CASE \E t \in Loggers : LogAdds(t)
  <2>1. PICK t \in Loggers : LogAdds(t)
    BY <1>4
  <2>2. logged + 1 \in Events
    <3>1. adding' = adding \ {t} /\ t \in adding
      BY <2>1 DEF LogAdds
    <3>2. IsFiniteSet(adding) /\ Cardinality(adding) \in Nat
      BY <1>0, LoggerAssumption, FS_Subset, FS_CardinalityType DEF HostTyped
    <3>3. Cardinality(adding) # 0
      BY <3>1, <3>2, FS_EmptySet
    <3> QED BY <1>0, <3>2, <3>3, SizeAssumption DEF HostTyped, Events
  <2>3. Queued' = Queued \cup {logged + 1}
    BY <1>0, <2>1, <2>2, ToSetAppend DEF LogAdds, HostTyped, Queued
  <2>4. Quiet(d) /\ Mapped' = Mapped
    BY <1>1, <1>2, <2>1 DEF LogAdds
  <2> QED BY <2>1, <2>3, <2>4 DEF LogAdds, Accepts, Handed, Rest, Whole, Summed
<1>5. CASE AsyncTakes
  <2>1. Quiet(d) /\ Mapped' = Mapped /\ UNCHANGED <<logged, Summed, dropped, setup>>
    BY <1>1, <1>2, <1>5 DEF AsyncTakes, Summed
  <2>2. asyncThread.hand = <<>> /\ asyncThread.rest[d] = <<>>
    BY <1>0, <1>5 DEF AsyncTakes, AsyncAt, AsyncTyped
  <2>3. CASE UNCHANGED async /\ UNCHANGED asyncThread.hand /\ UNCHANGED asyncThread.rest
    BY <2>1, <2>3 DEF Still, Queued, HandKept, Handed, Rest, Whole
  <2>4. CASE /\ async' = <<>> /\ asyncThread'.hand = async
             /\ asyncThread'.rest[d] = IF setup.summary THEN <<>> ELSE async
    BY <1>e, <2>1, <2>2, <2>4 DEF Takes, Queued, Handed, Rest, Whole
  <2>5. \/ UNCHANGED async /\ UNCHANGED asyncThread.hand /\ UNCHANGED asyncThread.rest
        \/ /\ async' = <<>> /\ asyncThread'.hand = async
           /\ asyncThread'.rest = [c \in dests |-> IF setup.summary THEN <<>> ELSE async]
    BY <1>0, <1>5 DEF AsyncTakes, Taken, AsyncTyped
  <2> QED BY <2>3, <2>4, <2>5
<1>6. CASE AsyncToSummary
  <2>1. Quiet(d) /\ Mapped' = Mapped /\ UNCHANGED <<logged, Queued, setup>>
    BY <1>1, <1>2, <1>6 DEF AsyncToSummary, Queued
  <2>2. asyncThread.hand # <<>> /\ setup.summary /\ Rest(d) = asyncThread.hand
    BY <1>0, <1>6 DEF AsyncToSummary, AsyncAt, AsyncTyped, Rest
  <2> DEFINE h == Head(asyncThread.hand)
  <2>3. /\ h \in Handed(d) /\ ToSet(Tail(asyncThread.hand)) = Handed(d) \ {h}
        /\ \A e \in ToSet(Tail(asyncThread.hand)) : h < e
    BY <1>0, <2>2, HeadOfList DEF Handed, AsyncTyped
  <2>4. ASSUME NEW hand, asyncThread' = AfterSend(hand)
        PROVE  asyncThread'.hand = hand /\ Rest(d)' = hand
    BY <1>0, <2>1, <2>2, <2>4 DEF AfterSend, AsyncTyped, Rest
  <2>5. CASE /\ summary' = Append(summary, h)
             /\ asyncThread' = AfterSend(Tail(asyncThread.hand)) /\ UNCHANGED dropped
    <3>1. Summed' = Summed \cup {h}
      <4>1. h \in Events
        BY <1>0, <2>2, ToSetTail DEF AsyncTyped
      <4> QED BY <1>0, <2>5, <4>1, ToSetAppend DEF SummaryTyped, Summed
    <3>2. Whole = Handed(d) /\ Whole' = Handed(d)' /\ Handed(d)' = ToSet(Tail(asyncThread.hand))
      BY <2>2, <2>4, <2>5 DEF Whole, Handed
    <3>3. Passes(d, h)
      BY <2>3, <3>2 DEF Passes
    <3> HIDE DEF h
    <3> QED BY <2>1, <2>3, <2>5, <3>1, <3>2, <3>3 DEF Summarises
  <2>6. CASE /\ dropped' = dropped \cup ToSet(asyncThread.hand)
             /\ asyncThread' = AfterSend(<<>>) /\ UNCHANGED summary
    <3>1. Handed(d)' = {} /\ Whole' = {} /\ Handed(d) = ToSet(asyncThread.hand)
      BY <1>e, <2>2, <2>4, <2>6 DEF Handed, Whole
    <3> QED BY <2>1, <2>6, <3>1 DEF Refuses, Summed
  <2> QED BY <1>6, <2>5, <2>6 DEF AsyncToSummary
<1> QED BY <1>4, <1>5, <1>6

(* What a destination sees when the async queue's thread gives c something.*)
LEMMA GivingEffects ==
    ASSUME Typed, NEW d \in dests, Increasing(Rest(d)), NEW c \in dests, AsyncToBatch(c)
    PROVE  Still(d) \/ Refuses(d) \/ Delivers(d) \/ Fails(d)
<1>0. HostTyped /\ AsyncTyped /\ SummaryTyped /\ BatchTyped
  BY DEF Typed
<1>e. ToSet(<<>>) = {}
  BY DEF ToSet
<1> DEFINE rest == asyncThread.rest[c]
<1>1. /\ asyncThread.hand # <<>> /\ ~setup.summary
      /\ rest \in Seq(Events) /\ rest # <<>>
  BY <1>0 DEF AsyncToBatch, AsyncTyped
<1>2. /\ UNCHANGED <<setup, logged, Queued, Summed, sent, buffer>>
      /\ Mapped' = Mapped /\ Mapped = {} /\ Summed = {}
  <2>1. \A e \in Events : EventKey[e] \in Names
    BY <1>0, SetupAssumption DEF HostTyped, EventKey
  <2>2. EventKey' = EventKey /\ UNCHANGED <<setup, logged, async, summary, summaryMap, summaryThread, sent, buffer>>
    BY DEF AsyncToBatch, EventKey
  <2>3. Mapped' = Mapped
    BY <2>2 DEF Mapped, InMap
  <2>4. Mapped = {}
    BY <1>0, <1>1, <2>1 DEF Mapped, InMap, SummaryTyped
  <2> QED BY <1>0, <1>e, <1>1, <2>2, <2>3, <2>4 DEF Queued, Summed, SummaryTyped
<1>3. Rest(d) = asyncThread.rest[d] /\ Rest(d)' = asyncThread'.rest[d]
  BY <1>1, <1>2 DEF Rest
<1>4. PICK t : /\ asyncThread' = AfterGiving(Given(c, t))
               /\ \/ Room(c) /\ t = Tail(rest) /\ Put({Head(rest)}, {c}) /\ UNCHANGED <<failed, dropped>>
                  \/ /\ ~Room(c) /\ t = <<>> /\ batch' = batch
                     /\ \/ Multi /\ Report(ToSet(asyncThread.hand), {c}) /\ UNCHANGED dropped
                        \/ ~Multi /\ dropped' = dropped \cup ToSet(rest) /\ UNCHANGED failed
  BY DEF AsyncToBatch
<1>5. /\ asyncThread'.rest[c] = t /\ \A b \in dests \ {c} : asyncThread'.rest[b] = asyncThread.rest[b]
      /\ asyncThread'.hand = IF \A b \in dests : asyncThread'.rest[b] = <<>> THEN <<>> ELSE asyncThread.hand
  <2>1. asyncThread'.rest = Given(c, t)
    BY <1>0, <1>4 DEF AfterGiving, AfterSend, AsyncTyped
  <2>2. Given(c, t)[c] = t /\ \A b \in dests \ {c} : Given(c, t)[b] = asyncThread.rest[b]
    BY <1>0 DEF Given, AsyncTyped
  <2>3. asyncThread'.hand = IF \A b \in dests : Given(c, t)[b] = <<>> THEN <<>> ELSE asyncThread.hand
    BY <1>0, <1>4 DEF AfterGiving, AfterSend, AsyncTyped
  <2> QED BY <2>1, <2>2, <2>3
<1>6. HandKept(d)
  BY <1>e, <1>3, <1>5 DEF HandKept, Whole, Handed
<1>7. CASE d # c
  <2>1. Handed(d)' = Handed(d)
    BY <1>3, <1>5, <1>7 DEF Handed
  <2>2. Multi
    BY <1>7 DEF Multi
  <2>3. failed'[d] = failed[d] /\ dropped' = dropped
    BY <1>4, <1>7, <2>2 DEF Report
  <2>4. RecordsFor(d)' = RecordsFor(d)
    <3>1. CASE batch' = batch
      BY <1>2, <3>1 DEF RecordsFor
    <3>2. CASE Put({Head(rest)}, {c})
      <4>1. {Head(rest)} \in Records
        BY <1>1, ToSetTail DEF Records
      <4> QED BY <1>2, <1>7, <3>2, <4>1, PutGains
    <3> QED BY <1>4, <3>1, <3>2
  <2> QED BY <1>2, <1>6, <2>1, <2>3, <2>4 DEF Still, Quiet
<1>8. CASE d = c /\ Room(c)
  <2> DEFINE h == Head(rest)
  <2>1. h \in Handed(d) /\ h \in Events /\ Handed(d)' = Handed(d) \ {h} /\ \A e \in Handed(d)' : h < e
    <3>1. Rest(d) = rest /\ Rest(d)' = Tail(rest)
      BY <1>3, <1>4, <1>5, <1>8
    <3>2. Increasing(rest)
      BY <3>1
    <3>3. /\ Head(rest) \in ToSet(rest) /\ Head(rest) \in Events
          /\ ToSet(Tail(rest)) = ToSet(rest) \ {Head(rest)}
          /\ \A e \in ToSet(Tail(rest)) : Head(rest) < e
      <4> HIDE DEF rest
      <4> QED BY <1>1, <3>2, HeadOfList
    <3> QED BY <3>1, <3>3 DEF Handed
  <2>2. RecordsFor(d)' = Append(RecordsFor(d), {h})
    <3>1. {h} \in Records /\ Put({h}, {c})
      BY <1>4, <1>8, <2>1 DEF Records
    <3> HIDE DEF h
    <3> QED BY <1>2, <1>8, <3>1, PutGains
  <2>3. UNCHANGED <<failed, dropped>>
    BY <1>4, <1>8
  <2> HIDE DEF h
  <2> QED BY <1>2, <1>6, <2>1, <2>2, <2>3 DEF Delivers, Passes, Gains
<1>9. CASE d = c /\ ~Room(c)
  <2>1. t = <<>> /\ batch' = batch /\ RecordsFor(d)' = RecordsFor(d)
    BY <1>2, <1>4, <1>9 DEF RecordsFor
  <2>2. Handed(d) = ToSet(rest) /\ Handed(d)' = {} /\ Handed(d) # {}
    <3>1. Head(rest) \in ToSet(rest)
      BY <1>1, ToSetTail
    <3> QED BY <1>e, <1>3, <1>5, <1>9, <2>1, <3>1 DEF Handed
  <2>3. CASE Multi /\ Report(ToSet(asyncThread.hand), {c}) /\ UNCHANGED dropped
    <3>1. Loses(d, Whole)
      BY <1>9, <2>1, <2>3 DEF Report, Loses, Whole
    <3> QED BY <1>1, <1>2, <1>6, <2>2, <2>3, <3>1 DEF Fails
  <2>4. CASE ~Multi /\ dropped' = dropped \cup ToSet(rest) /\ UNCHANGED failed
    <3>1. \A b \in dests : b = c
      BY <2>4 DEF Multi
    <3>2. Whole' = {}
      BY <1>e, <1>5, <2>1, <3>1 DEF Whole
    <3> QED BY <1>2, <2>1, <2>2, <2>4, <3>2 DEF Refuses, Quiet
  <2> QED BY <1>4, <1>9, <2>3, <2>4
<1> QED BY <1>7, <1>8, <1>9

(* What the summary queue's thread and the others do.                      *)
LEMMA OtherEffects ==
    ASSUME Typed, NEW d \in dests, Next,
           ~\E t \in Loggers : LogAdds(t), ~AsyncTakes, ~AsyncToSummary, ~\E c \in dests : AsyncToBatch(c)
    PROVE  Still(d) \/ Counts(d) \/ Sends(d)
<1>0. AsyncTyped /\ SummaryTyped /\ BatchTyped
  BY DEF Typed
<1>1. ASSUME UNCHANGED <<setup, sent, buffer, batch, failed>>
      PROVE  Quiet(d)
  BY <1>1 DEF Quiet, RecordsFor
<1>2. /\ UNCHANGED <<setup, logged, async, dropped>>
      /\ UNCHANGED asyncThread.hand /\ UNCHANGED asyncThread.rest
  <2>1. CASE AsyncLoop \/ AsyncTests \/ AsyncStops \/ HookStops
    BY <1>0, <2>1 DEF AsyncLoop, AsyncTests, AsyncStops, HookStops, AsyncTyped
  <2>2. CASE UNCHANGED <<setup, logged, async, dropped, asyncThread>>
    BY <2>2
  <2> QED
    BY <2>1, <2>2 DEF Next, Log, AsyncRun, SummaryRun, BatchRun, Hook, LogFindsRoom, SummaryLoop, SummaryPolls,
        SummaryChecks, SummarySends, SummaryClears, SummaryTests, SummaryStops, BatchTakes, BatchSends, BatchEnds,
        HookStarts, HookDrains, HookSeesEmpty, Halt
<1>3. UNCHANGED <<logged, Queued, Whole, Handed(d), dropped>>
  BY <1>2 DEF Queued, Whole, Handed, Rest
<1>s. ASSUME Quiet(d), UNCHANGED <<Summed, Mapped>>
      PROVE  Still(d)
  BY <1>3, <1>s DEF Still, HandKept
<1>k. EventKey' = EventKey
  BY <1>2 DEF EventKey
<1>e. ToSet(<<>>) = {}
  BY DEF ToSet
<1>m. ASSUME NEW e \in Events PROVE EventKey[e] \in Names
  BY SetupAssumption DEF Typed, HostTyped, EventKey
<1>4. CASE SummaryPolls
  <2>1. Quiet(d)
    BY <1>1, <1>4 DEF SummaryPolls
  <2>2. summaryThread.at \in {"wait", "poll"} /\ summaryThread'.at = "check"
    BY <1>0, <1>4 DEF SummaryPolls, SummaryAt, SummaryTyped
  <2>3. /\ \A e \in Events : InMap(e) <=> e \in summaryMap[EventKey[e]]
        /\ \A e \in Events : InMap(e)' <=> e \in summaryMap'[EventKey[e]]
    BY <1>k, <2>2 DEF InMap
  <2>4. CASE UNCHANGED <<summary, summaryMap>>
    BY <1>s, <2>1, <2>3, <2>4 DEF Summed, Mapped
  <2>5. CASE /\ summaryMap' = [k \in Names |-> summaryMap[k] \cup {e \in ToSet(summary) : EventKey[e] = k}]
             /\ summary' = <<>>
    <3>1. Summed \subseteq Events
      BY <1>0, LenProperties, ElementOfSeq DEF ToSet, Summed, SummaryTyped
    <3>2. ASSUME NEW e \in Events PROVE e \in summaryMap'[EventKey[e]] <=> e \in summaryMap[EventKey[e]] \/ e \in Summed
      BY <1>m, <2>5, <3>2 DEF Summed
    <3>3. Mapped' = Mapped \cup Summed
      BY <2>3, <3>1, <3>2 DEF Mapped
    <3>4. Summed' = {}
      BY <1>e, <2>5 DEF Summed
    <3> QED BY <1>3, <2>1, <3>3, <3>4 DEF Counts
  <2> QED BY <1>4, <2>4, <2>5 DEF SummaryPolls
<1>5. CASE SummaryChecks
  <2>1. Quiet(d) /\ UNCHANGED <<Summed, summaryMap>>
    BY <1>1, <1>5 DEF SummaryChecks, Summed
  <2>2. summaryThread.at = "check"
    BY <1>5 DEF SummaryChecks, SummaryAt
  <2>3. \/ summaryThread'.at = "test"
        \/ summaryThread'.at = "send" /\ summaryThread'.todo = {k \in Names : summaryMap[k] # {}}
    BY <1>0, <1>5 DEF SummaryChecks, SummaryTyped
  <2>4. ASSUME NEW e \in Events PROVE InMap(e)' <=> InMap(e)
    BY <1>k, <1>m, <2>1, <2>2, <2>3, <2>4 DEF InMap
  <2> QED BY <1>s, <2>1, <2>4 DEF Mapped
<1>6. CASE \E k \in Names : SummarySends(k)
  <2>1. PICK k \in Names : SummarySends(k)
    BY <1>6
  <2> DEFINE r == {e \in Mapped : EventKey[e] = k}
  <2>2. /\ summaryThread.at = "send" /\ k \in summaryThread.todo
        /\ UNCHANGED <<Summed, summaryMap, sent, buffer>>
    BY <2>1 DEF SummarySends, SummaryAt, Summed
  <2>3. summaryMap[k] \in Records /\ \A e \in summaryMap[k] : EventKey[e] = k
    BY <1>0 DEF SummaryTyped
  <2>4. summaryMap[k] = r
    BY <2>2, <2>3 DEF Mapped, InMap, Records
  <2>5. /\ Room(d) => RecordsFor(d)' = Append(RecordsFor(d), summaryMap[k])
        /\ ~Room(d) => RecordsFor(d)' = RecordsFor(d)
    BY <2>1, <2>2, <2>3, PutGains DEF SummarySends
  <2>6. d \in Full(dests) <=> ~Room(d)
    BY DEF Full
  <2>7. CASE /\ Report(summaryMap[k], Full(dests))
             /\ summaryThread' = [summaryThread EXCEPT !.todo = @ \ {k}]
    <3>1. failed'[d] = IF ~Room(d) THEN failed[d] \cup summaryMap[k] ELSE failed[d]
      BY <2>6, <2>7 DEF Report
    <3>2. Gains(d, r) \/ Loses(d, r)
      BY <2>4, <2>5, <3>1 DEF Gains, Loses
    <3>3. summaryThread'.at = "send" /\ summaryThread'.todo = summaryThread.todo \ {k}
      BY <1>0, <2>2, <2>7 DEF SummaryTyped
    <3>4. ASSUME NEW e \in Events PROVE InMap(e)' <=> InMap(e) /\ EventKey[e] # k
      BY <1>k, <2>2, <3>3 DEF InMap
    <3>5. Mapped' = Mapped \ r
      BY <3>4 DEF Mapped
    <3> HIDE DEF r
    <3>6. \E c \in Names : /\ Mapped' = Mapped \ {e \in Mapped : EventKey[e] = c}
                           /\ \/ Gains(d, {e \in Mapped : EventKey[e] = c})
                              \/ Loses(d, {e \in Mapped : EventKey[e] = c})
      BY <3>2, <3>5 DEF r
    <3> QED BY <1>3, <2>2, <3>6 DEF Sends
  <2>8. CASE ~Multi /\ Full(dests) # {} /\ summaryThread' = [summaryThread EXCEPT !.at = "dead"] /\ UNCHANGED failed
    <3>1. ~Room(d)
      BY <2>8 DEF Multi, Full
    <3>2. Quiet(d)
      BY <2>5, <2>8, <3>1 DEF Quiet
    <3>3. summaryThread'.at = "dead" /\ summaryThread'.todo = summaryThread.todo
      BY <1>0, <2>8 DEF SummaryTyped
    <3>4. Mapped' = Mapped
      BY <1>k, <2>2, <3>3 DEF Mapped, InMap
    <3> QED BY <1>s, <2>2, <3>2, <3>4
  <2> QED BY <2>1, <2>7, <2>8 DEF SummarySends
<1>7. CASE SummaryClears
  <2>1. Quiet(d) /\ Summed' = Summed
    BY <1>1, <1>7 DEF SummaryClears, Summed
  <2>2. summaryThread.at = "send" /\ summaryThread.todo = {} /\ summaryMap' = [k \in Names |-> {}]
    BY <1>7 DEF SummaryClears, SummaryAt, Kept
  <2>3. Mapped = {} /\ Mapped' = {}
    BY <1>k, <1>m, <2>2 DEF Mapped, InMap
  <2> QED BY <1>s, <2>1, <2>3
<1>8. CASE SummaryLoop \/ SummaryTests \/ SummaryStops \/ AsyncStops
  <2>1. Quiet(d) /\ Summed' = Summed /\ summaryMap' = summaryMap
    BY <1>1, <1>8 DEF SummaryLoop, SummaryTests, SummaryStops, AsyncStops, Summed
  <2>2. \/ summaryThread.at \notin {"send", "dead"} /\ summaryThread'.at \notin {"send", "dead"}
        \/ summaryThread'.at = summaryThread.at /\ summaryThread'.todo = summaryThread.todo
    BY <1>0, <1>8 DEF SummaryLoop, SummaryTests, SummaryStops, AsyncStops, SummaryAt, SummaryTyped
  <2>3. Mapped' = Mapped
    BY <1>k, <2>1, <2>2 DEF Mapped, InMap
  <2> QED BY <1>s, <2>1, <2>3
<1>9. CASE \E c \in dests : BatchTakes(c) \/ BatchSends(c)
  <2>1. PICK c \in dests : BatchTakes(c) \/ BatchSends(c)
    BY <1>9
  <2>2. UNCHANGED <<setup, failed, summary, summaryMap, summaryThread>>
    BY <2>1 DEF BatchTakes, BatchSends
  <2>3. /\ sent[d] \in Seq(Records) /\ buffer[d] \in Seq(Records) /\ batch[d] \in Seq(Records)
        /\ c # d => UNCHANGED <<sent[d], buffer[d], batch[d]>>
    BY <1>0, <2>1 DEF BatchTakes, BatchSends, BatchTyped
  <2>4. RecordsFor(d)' = RecordsFor(d)
    <3>1. CASE c = d /\ BatchTakes(c)
      <4>1. batch[d] # <<>> /\ sent'[d] = sent[d] /\ batch'[d] = Tail(batch[d])
            /\ buffer'[d] = Append(buffer[d], Head(batch[d])) /\ Head(batch[d]) \in Records
        <5>1. batch[d] # <<>>
          BY <3>1 DEF BatchTakes
        <5>2. Head(batch[d]) \in Records
          BY <2>3, <5>1, ToSetTail
        <5>3. /\ sent' = sent /\ batch' = [batch EXCEPT ![d] = Tail(batch[d])]
              /\ buffer' = [buffer EXCEPT ![d] = Append(buffer[d], Head(batch[d]))]
          BY <3>1 DEF BatchTakes
        <5> QED BY <1>0, <5>1, <5>2, <5>3 DEF BatchTyped
      <4>2. (sent[d] \o Append(buffer[d], Head(batch[d]))) \o Tail(batch[d]) = (sent[d] \o buffer[d]) \o batch[d]
        <5>1. batch[d] # <<>>
          BY <4>1
        <5> QED BY <2>3, <5>1, TakenBehind
      <4> QED BY <4>1, <4>2 DEF RecordsFor
    <3>2. CASE c = d /\ BatchSends(c)
      <4>1. \/ UNCHANGED <<sent, buffer, batch>>
            \/ sent'[d] = sent[d] \o buffer[d] /\ buffer'[d] = <<>> /\ batch'[d] = batch[d]
        BY <1>0, <3>2 DEF BatchSends, BatchTyped
      <4>2. sent[d] \o buffer[d] \in Seq(Records)
        BY <2>3, ConcatProperties
      <4>3. (sent[d] \o buffer[d]) \o <<>> = sent[d] \o buffer[d]
        BY <4>2, ConcatEmptySeq
      <4> QED BY <4>1, <4>3 DEF RecordsFor
    <3>3. CASE c # d
      BY <2>3, <3>3 DEF RecordsFor
    <3> QED BY <2>1, <3>1, <3>2, <3>3
  <2>5. Quiet(d)
    BY <2>2, <2>4 DEF Quiet
  <2>6. Mapped' = Mapped /\ Summed' = Summed
    BY <1>k, <2>2 DEF Mapped, InMap, Summed
  <2> QED BY <1>s, <2>5, <2>6
<1>10. CASE UNCHANGED <<setup, summary, summaryMap, summaryThread, sent, buffer, batch, failed>>
  <2>1. Quiet(d) /\ Mapped' = Mapped /\ Summed' = Summed
    BY <1>1, <1>k, <1>10 DEF Mapped, InMap, Summed
  <2> QED BY <1>s, <2>1
<1> QED
  BY <1>4, <1>5, <1>6, <1>7, <1>8, <1>9, <1>10
  DEF Next, Log, AsyncRun, SummaryRun, BatchRun, Hook, LogFindsRoom, AsyncLoop, AsyncTests, BatchEnds,
      HookStarts, HookDrains, HookSeesEmpty, HookStops, Halt

-----------------------------------------------------------------------------
(* The rest of the inductive invariant: older events are further on.       *)
Below(E, F) == \A e \in E, f \in F : e < f

BelowOfKey(E, F) == \A e \in E, f \in F : EventKey[e] = EventKey[f] => e < f

OnTheWay(d) == Mapped \cup Summed \cup Handed(d) \cup Queued

Known(d) ==
    /\ \A e \in OnTheWay(d) \cup dropped : e <= logged
    /\ \A e \in failed[d] : e <= logged
    /\ \A i \in DOMAIN RecordsFor(d) : \A e \in RecordsFor(d)[i] : e <= logged

Ordered(d) ==
    /\ Increasing(async) /\ Increasing(Rest(d)) /\ Increasing(summary)
    /\ Below(Mapped, Summed \cup Handed(d) \cup Queued)
    /\ Below(Summed, Handed(d) \cup Queued)
    /\ Below(Handed(d), Queued)
    /\ \A i \in DOMAIN RecordsFor(d) : BelowOfKey(RecordsFor(d)[i], OnTheWay(d))

InOrder(d) ==
    \A i, j \in DOMAIN RecordsFor(d) : i < j => BelowOfKey(RecordsFor(d)[i], RecordsFor(d)[j])

(* What a destination has had of the list in the hand is older than what   *)
(* it is still to get, and is counted, unless the list was reported; that  *)
(* ends the list for this destination.                                     *)
ListGoesOn(d) ==
    /\ Handed(d) \subseteq Whole
    /\ Below(Whole \ Handed(d), Handed(d))
    /\ Below(Whole, Queued)
    /\ Handed(d) # {} => Whole \cap (failed[d] \cup dropped) = {}
    /\ \A e \in Whole \ Handed(d) : e \in failed[d] \/ e \in dropped \/ CountedIn(e, d) # {}

(* The places of an event, for one destination, exclude one another; only  *)
(* a report of the list may come on top of a record.                       *)
Once(e, d) ==
    /\ e \in OnTheWay(d) \/ e \in failed[d] \/ e \in dropped \/ CountedIn(e, d) # {}
    /\ e \in Queued    => e \notin Handed(d) \cup Summed \cup Mapped \cup failed[d] \cup dropped /\ CountedIn(e, d) = {}
    /\ e \in Handed(d) => e \notin Summed \cup Mapped \cup failed[d] \cup dropped /\ CountedIn(e, d) = {}
    /\ e \in Summed    => e \notin Mapped \cup failed[d] \cup dropped /\ CountedIn(e, d) = {}
    /\ e \in Mapped    => e \notin failed[d] \cup dropped /\ CountedIn(e, d) = {}
    /\ e \in failed[d] => e \notin dropped /\ (CountedIn(e, d) # {} => ReportedWithLater(e, d))
    /\ e \in dropped   => CountedIn(e, d) = {}
    /\ \A i, j \in CountedIn(e, d) : i = j

AllOnce(d) == \A e \in 1 .. logged : Once(e, d)

InvFor(d) == Known(d) /\ Ordered(d) /\ InOrder(d) /\ ListGoesOn(d) /\ AllOnce(d)

Inv == Typed /\ InTurn /\ \A d \in dests : InvFor(d)

(* What the sets hold.                                                     *)
LEMMA SetsTyped ==
    ASSUME Typed
    PROVE  /\ Queued \subseteq Events /\ Summed \subseteq Events /\ Mapped \subseteq Events
           /\ dropped \subseteq Events /\ Whole \subseteq Events
           /\ \A d \in dests : failed[d] \subseteq Events /\ Handed(d) \subseteq Events
           /\ \A d \in dests : RecordsFor(d) \in Seq(Records)
           /\ logged \in Nat /\ logged <= MaxEvents
<1>0. HostTyped /\ AsyncTyped /\ SummaryTyped /\ BatchTyped
  BY DEF Typed
<1>1. ASSUME NEW s \in Seq(Events) PROVE ToSet(s) \subseteq Events
  BY LenProperties, ElementOfSeq DEF ToSet
<1>2. Queued \subseteq Events /\ Whole \subseteq Events /\ Summed \subseteq Events /\ Mapped \subseteq Events
  BY <1>0, <1>1 DEF Queued, Whole, Summed, Mapped, HostTyped, AsyncTyped, SummaryTyped
<1>3. \A d \in dests : Handed(d) \subseteq Events
  BY <1>0, <1>1 DEF Handed, Rest, AsyncTyped
<1>4. \A d \in dests : RecordsFor(d) \in Seq(Records)
  BY <1>0, ConcatProperties DEF RecordsFor, BatchTyped
<1>5. dropped \subseteq Events /\ \A d \in dests : failed[d] \subseteq Events
  BY <1>0 DEF BatchTyped, Records
<1>6. Cardinality(adding) \in Nat
  BY <1>0, LoggerAssumption, FS_Subset, FS_CardinalityType DEF HostTyped
<1> QED BY <1>0, <1>2, <1>3, <1>4, <1>5, <1>6, SizeAssumption DEF HostTyped

(* What a destination may see of a step.                                   *)
Seen(d) ==
    Still(d) \/ Accepts(d) \/ Takes(d) \/ Summarises(d) \/ Refuses(d) \/ Delivers(d) \/ Fails(d)
    \/ Counts(d) \/ Sends(d)

(* Every step is one of a few to a destination.                            *)
LEMMA Effects ==
    ASSUME Typed, NEW d \in dests, Increasing(Rest(d)), Next
    PROVE  Seen(d) /\ setup' = setup
<1>1. setup' = setup
  BY DEF Next, Log, AsyncRun, SummaryRun, BatchRun, Hook, LogFindsRoom, LogAdds, AsyncLoop, AsyncTakes,
         AsyncToSummary, AsyncToBatch, AsyncTests, AsyncStops, SummaryLoop, SummaryPolls, SummaryChecks,
         SummarySends, SummaryClears, SummaryTests, SummaryStops, BatchTakes, BatchSends, BatchEnds,
         HookStarts, HookDrains, HookSeesEmpty, HookStops, Halt
<1>2. CASE (\E t \in Loggers : LogAdds(t)) \/ AsyncTakes \/ AsyncToSummary
  BY <1>1, <1>2, AsyncEffects DEF Seen
<1>3. CASE \E c \in dests : AsyncToBatch(c)
  BY <1>1, <1>3, GivingEffects DEF Seen
<1>4. CASE ~((\E t \in Loggers : LogAdds(t)) \/ AsyncTakes \/ AsyncToSummary \/ \E c \in dests : AsyncToBatch(c))
  BY <1>1, <1>4, OtherEffects DEF Seen
<1> QED BY <1>2, <1>3, <1>4

(* What is recorded after a step: nothing more, or one record.             *)
New(d, r) == RecordsFor(d)' = RecordsFor(d) \/ RecordsFor(d)' = Append(RecordsFor(d), r)

(* A record that a destination has after a step: an old one, or the new.   *)
LEMMA NewIsLast ==
    ASSUME Typed, NEW d \in dests, NEW r \in SUBSET Events, New(d, r)
    PROVE  LET n == Len(RecordsFor(d))
           IN  /\ DOMAIN RecordsFor(d) = 1 .. n /\ n \in Nat
               /\ \A i \in DOMAIN RecordsFor(d) : i \in DOMAIN RecordsFor(d)' /\ RecordsFor(d)'[i] = RecordsFor(d)[i]
               /\ \A i \in DOMAIN RecordsFor(d)' :
                    i \in DOMAIN RecordsFor(d) \/ (i = n + 1 /\ RecordsFor(d)'[i] = r)
               /\ RecordsFor(d)' = Append(RecordsFor(d), r) =>
                    n + 1 \in DOMAIN RecordsFor(d)' /\ RecordsFor(d)'[n + 1] = r
<1> DEFINE n == Len(RecordsFor(d))
<1>1. RecordsFor(d) \in Seq(Records) /\ r \in Records
  BY SetsTyped DEF Records
<1>2. DOMAIN RecordsFor(d) = 1 .. n /\ n \in Nat
  BY <1>1, LenProperties
<1>3. CASE RecordsFor(d)' = Append(RecordsFor(d), r)
  <2>1. /\ Append(RecordsFor(d), r) \in Seq(Records)
        /\ Len(Append(RecordsFor(d), r)) = n + 1
        /\ \A i \in 1 .. n : Append(RecordsFor(d), r)[i] = RecordsFor(d)[i]
        /\ Append(RecordsFor(d), r)[n + 1] = r
    BY <1>1, AppendProperties
  <2>2. DOMAIN Append(RecordsFor(d), r) = 1 .. n + 1
    BY <2>1, LenProperties
  <2> HIDE DEF n
  <2>3. DOMAIN RecordsFor(d)' = 1 .. n + 1 /\ \A i \in 1 .. n + 1 : i \in 1 .. n \/ i = n + 1
    BY <1>2, <1>3, <2>2
  <2> QED BY <1>2, <1>3, <2>1, <2>3 DEF n
<1>4. CASE RecordsFor(d)' = RecordsFor(d) /\ RecordsFor(d)' # Append(RecordsFor(d), r)
  BY <1>2, <1>4
<1> QED BY <1>3, <1>4 DEF New

(* What a new record adds to the count of an event.                        *)
LEMMA NewCounted ==
    ASSUME Typed, NEW d \in dests, NEW r \in SUBSET Events, New(d, r), NEW e
    PROVE  /\ RecordsFor(d)' = RecordsFor(d) \/ e \notin r => CountedIn(e, d)' = CountedIn(e, d)
           /\ RecordsFor(d)' = Append(RecordsFor(d), r) /\ e \in r =>
                CountedIn(e, d)' = CountedIn(e, d) \cup {Len(RecordsFor(d)) + 1}
<1> DEFINE n == Len(RecordsFor(d))
<1>1. /\ DOMAIN RecordsFor(d) = 1 .. n /\ n \in Nat
      /\ \A i \in DOMAIN RecordsFor(d) : i \in DOMAIN RecordsFor(d)' /\ RecordsFor(d)'[i] = RecordsFor(d)[i]
      /\ \A i \in DOMAIN RecordsFor(d)' :
            i \in DOMAIN RecordsFor(d) \/ (i = n + 1 /\ RecordsFor(d)'[i] = r)
      /\ RecordsFor(d)' = Append(RecordsFor(d), r) =>
            n + 1 \in DOMAIN RecordsFor(d)' /\ RecordsFor(d)'[n + 1] = r
  BY NewIsLast
<1>2. /\ CountedIn(e, d)' = {i \in DOMAIN RecordsFor(d)' : e \in RecordsFor(d)'[i]}
      /\ CountedIn(e, d) = {i \in DOMAIN RecordsFor(d) : e \in RecordsFor(d)[i]}
  BY DEF CountedIn
<1>3. ASSUME RecordsFor(d)' = RecordsFor(d) PROVE CountedIn(e, d)' = CountedIn(e, d)
  BY <1>2, <1>3
<1> HIDE DEF n
<1>4. ASSUME e \notin r PROVE CountedIn(e, d)' = CountedIn(e, d)
  BY <1>1, <1>2, <1>4
<1>5. ASSUME RecordsFor(d)' = Append(RecordsFor(d), r), e \in r
      PROVE  CountedIn(e, d)' = CountedIn(e, d) \cup {n + 1}
  BY <1>1, <1>2, <1>5
<1> QED BY <1>3, <1>4, <1>5 DEF n

-----------------------------------------------------------------------------
(* Places only pass on what they have; what is recorded is older than what *)
(* is still on its way with the same key.                                  *)
LEMMA Passing ==
    ASSUME Typed, NEW d \in dests, Ordered(d), Next
    PROVE  /\ logged' \in Nat /\ logged <= logged'
           /\ OnTheWay(d)' \subseteq OnTheWay(d) \cup (IF logged' = logged THEN {} ELSE {logged'})
           /\ dropped' \subseteq dropped \cup OnTheWay(d)
           /\ failed'[d] \subseteq failed[d] \cup OnTheWay(d) \cup Whole
           /\ \E r \in SUBSET OnTheWay(d) : New(d, r) /\ BelowOfKey(r, OnTheWay(d)')
<1>0. Seen(d)
  BY Effects DEF Ordered
<1>1. logged \in Nat
  BY SetsTyped
<1>2. OnTheWay(d)' = Mapped' \cup Summed' \cup Handed(d)' \cup Queued'
  BY DEF OnTheWay
<1>3. ASSUME Quiet(d) \/ \E E : Loses(d, E)
      PROVE  \E r \in SUBSET OnTheWay(d) : New(d, r) /\ BelowOfKey(r, OnTheWay(d)')
  <2>1. BelowOfKey({}, OnTheWay(d)') /\ {} \in SUBSET OnTheWay(d)
    BY DEF BelowOfKey
  <2> QED BY <1>3, <2>1 DEF Quiet, Loses, New
<1>4. CASE Accepts(d)
  <2>1. Quiet(d) /\ logged' = logged + 1 /\ Queued' = Queued \cup {logged'} /\ dropped' = dropped
    BY <1>4 DEF Accepts
  <2>2. OnTheWay(d)' \subseteq OnTheWay(d) \cup {logged'}
    BY <1>2, <1>4, <2>1 DEF Accepts, OnTheWay
  <2> QED BY <1>1, <1>3, <2>1, <2>2 DEF Quiet
<1>5. CASE Still(d) \/ Takes(d) \/ Summarises(d) \/ Refuses(d) \/ Counts(d)
  <2>1. Quiet(d) /\ logged' = logged
    BY <1>5 DEF Still, Takes, Summarises, Refuses, Counts
  <2>2. OnTheWay(d)' \subseteq OnTheWay(d) /\ dropped' \subseteq dropped \cup OnTheWay(d)
    BY <1>2, <1>5 DEF Still, Takes, Summarises, Refuses, Counts, Passes, OnTheWay
  <2> QED BY <1>1, <1>3, <2>1, <2>2 DEF Quiet
<1>6. CASE Delivers(d)
  <2>1. PICK h \in Handed(d) : Passes(d, h) /\ Gains(d, {h})
    BY <1>6 DEF Delivers
  <2>2. /\ logged' = logged /\ dropped' = dropped /\ OnTheWay(d)' \subseteq OnTheWay(d)
        /\ OnTheWay(d)' = Handed(d)' \cup Queued /\ failed'[d] = failed[d]
    BY <1>2, <1>6, <2>1 DEF Delivers, Passes, OnTheWay, Gains
  <2>3. BelowOfKey({h}, OnTheWay(d)')
    BY <2>1, <2>2 DEF Passes, Ordered, Below, BelowOfKey
  <2>4. {h} \in SUBSET OnTheWay(d) /\ New(d, {h})
    BY <2>1 DEF OnTheWay, New, Gains
  <2> QED BY <1>1, <2>2, <2>3, <2>4
<1>7. CASE Fails(d)
  <2>1. /\ logged' = logged /\ dropped' = dropped /\ OnTheWay(d)' \subseteq OnTheWay(d)
        /\ failed'[d] = failed[d] \cup Whole /\ Loses(d, Whole)
    BY <1>2, <1>7 DEF Fails, OnTheWay, Loses
  <2> QED BY <1>1, <1>3, <2>1
<1>8. CASE Sends(d)
  <2>1. PICK k \in Names :
            /\ Mapped' = Mapped \ {e \in Mapped : EventKey[e] = k}
            /\ Gains(d, {e \in Mapped : EventKey[e] = k}) \/ Loses(d, {e \in Mapped : EventKey[e] = k})
    BY <1>8 DEF Sends
  <2> DEFINE r == {e \in Mapped : EventKey[e] = k}
  <2>2. logged' = logged /\ dropped' = dropped /\ OnTheWay(d)' \subseteq OnTheWay(d)
    BY <1>2, <1>8, <2>1 DEF Sends, OnTheWay
  <2>3. r \in SUBSET OnTheWay(d)
    BY DEF OnTheWay
  <2>4. BelowOfKey(r, OnTheWay(d)')
    <3>1. OnTheWay(d)' = (Mapped \ r) \cup Summed \cup Handed(d) \cup Queued
      BY <1>2, <1>8, <2>1 DEF Sends
    <3> QED BY <3>1 DEF Ordered, Below, BelowOfKey
  <2>5. New(d, r) /\ failed'[d] \subseteq failed[d] \cup r
    BY <2>1 DEF Gains, Loses, New
  <2> HIDE DEF r
  <2> QED BY <1>1, <2>2, <2>3, <2>4, <2>5
<1> QED BY <1>0, <1>4, <1>5, <1>6, <1>7, <1>8 DEF Seen

(* What is in the hand has been accepted.                                  *)
LEMMA WholeKnown ==
    ASSUME NEW d \in dests, Known(d), ListGoesOn(d)
    PROVE  \A e \in Whole : e <= logged
<1> SUFFICES ASSUME NEW e \in Whole PROVE e <= logged
  OBVIOUS
<1>1. CASE e \in Handed(d) \/ e \in failed[d] \/ e \in dropped
  BY <1>1 DEF Known, OnTheWay
<1>2. CASE CountedIn(e, d) # {}
  BY <1>2 DEF Known, CountedIn
<1> QED BY <1>1, <1>2 DEF ListGoesOn

(* Nothing is anywhere that the async queue has not accepted.              *)
LEMMA KnownStep == ASSUME Typed, NEW d \in dests, InvFor(d), Next PROVE Known(d)'
<1>1. /\ logged' \in Nat /\ logged \in Nat /\ logged <= logged'
      /\ OnTheWay(d)' \subseteq OnTheWay(d) \cup {logged'}
      /\ dropped' \subseteq dropped \cup OnTheWay(d)
      /\ failed'[d] \subseteq failed[d] \cup OnTheWay(d) \cup Whole
      /\ OnTheWay(d) \subseteq Events /\ dropped \subseteq Events /\ failed[d] \subseteq Events /\ Whole \subseteq Events
  BY Passing, SetsTyped DEF OnTheWay, InvFor
<1>2. ASSUME NEW e \in Events, e <= logged PROVE e <= logged'
  BY <1>1, <1>2 DEF Events
<1>3. \A e \in OnTheWay(d)' \cup dropped' : e <= logged'
  BY <1>1, <1>2 DEF Known, InvFor
<1>4. \A e \in failed'[d] : e <= logged'
  <2>1. \A e \in Whole : e <= logged
    BY WholeKnown DEF InvFor
  <2> QED BY <1>1, <1>2, <2>1 DEF Known, InvFor
<1>5. ASSUME NEW i \in DOMAIN RecordsFor(d)' PROVE \A e \in RecordsFor(d)'[i] : e <= logged'
  <2>1. PICK r \in SUBSET OnTheWay(d) : New(d, r)
    BY Passing DEF InvFor
  <2>2. r \in SUBSET Events
    BY <1>1
  <2>3. \/ i \in DOMAIN RecordsFor(d) /\ RecordsFor(d)'[i] = RecordsFor(d)[i]
        \/ RecordsFor(d)'[i] = r
    BY <1>5, <2>1, <2>2, NewIsLast
  <2>4. CASE i \in DOMAIN RecordsFor(d) /\ RecordsFor(d)'[i] = RecordsFor(d)[i]
    <3>1. RecordsFor(d)[i] \subseteq Events
      BY <2>4, SetsTyped, ElementOfSeq, LenProperties DEF Records
    <3> QED BY <1>2, <2>4, <3>1 DEF Known, InvFor
  <2>5. CASE RecordsFor(d)'[i] = r
    BY <1>1, <1>2, <2>5 DEF Known, InvFor
  <2> QED BY <2>3, <2>4, <2>5
<1> QED BY <1>3, <1>4, <1>5 DEF Known

(* The queues are increasing.                                              *)
LEMMA IncreasingStep ==
    ASSUME Typed, NEW d \in dests, InvFor(d), Next
    PROVE  Increasing(async)' /\ Increasing(Rest(d))' /\ Increasing(summary)'
<1>0. /\ HostTyped /\ AsyncTyped /\ SummaryTyped
      /\ Increasing(async) /\ Increasing(Rest(d)) /\ Increasing(summary) /\ setup' = setup
  BY Effects DEF Typed, InvFor, Ordered
<1>e. Increasing(<<>>)
  BY DEF Increasing
<1>1. Increasing(async)'
  <2>1. CASE \E t \in Loggers : LogAdds(t)
    <3>1. async' = Append(async, logged + 1) /\ logged' = logged + 1 /\ HostTyped'
      BY <2>1, HostStep DEF LogAdds
    <3>2. Cardinality(adding') \in Nat /\ logged \in Nat
      BY <3>1, <1>0, LoggerAssumption, FS_Subset, FS_CardinalityType DEF HostTyped
    <3>3. logged + 1 \in Events
      BY <3>1, <3>2, SizeAssumption DEF HostTyped, Events
    <3>4. \A e \in ToSet(async) : e < logged + 1
      BY <3>2, SetsTyped DEF InvFor, Known, OnTheWay, Queued, Events
    <3> QED BY <1>0, <3>1, <3>3, <3>4, IncreasingAppend DEF HostTyped
  <2>2. CASE async' = async \/ async' = <<>>
    BY <1>0, <1>e, <2>2
  <2> QED
    BY <2>1, <2>2 DEF Next, Log, AsyncRun, SummaryRun, BatchRun, Hook, LogFindsRoom, AsyncLoop, AsyncTakes,
        AsyncToSummary, AsyncToBatch, AsyncTests, AsyncStops, SummaryLoop, SummaryPolls, SummaryChecks,
        SummarySends, SummaryClears, SummaryTests, SummaryStops, BatchTakes, BatchSends, BatchEnds,
        HookStarts, HookDrains, HookSeesEmpty, HookStops, Halt
<1>2. Increasing(Rest(d))'
  <2>1. ASSUME NEW s \in Seq(Events), s # <<>>, Increasing(s) PROVE Increasing(Tail(s))
    BY <2>1, IncreasingTail
  <2>2. CASE AsyncTakes
    <3>1. \/ asyncThread'.hand = asyncThread.hand /\ asyncThread'.rest = asyncThread.rest
          \/ /\ asyncThread'.hand = async
             /\ asyncThread'.rest = [c \in dests |-> IF setup.summary THEN <<>> ELSE async]
      BY <1>0, <2>2 DEF AsyncTakes, Taken, AsyncTyped
    <3>2. Rest(d)' = Rest(d) \/ Rest(d)' = async
      BY <1>0, <3>1 DEF Rest
    <3> QED BY <1>0, <3>2
  <2>3. CASE AsyncToSummary
    <3>1. asyncThread.hand # <<>> /\ asyncThread.hand \in Seq(Events) /\ Rest(d) = asyncThread.hand
      BY <1>0, <2>3 DEF AsyncToSummary, AsyncAt, AsyncTyped, Rest
    <3>2. Rest(d)' = Tail(asyncThread.hand) \/ Rest(d)' = <<>>
      BY <1>0, <2>3 DEF AsyncToSummary, AfterSend, AsyncTyped, Rest
    <3>3. Increasing(Tail(asyncThread.hand))
      BY <1>0, <2>1, <3>1
    <3> QED BY <1>e, <3>2, <3>3
  <2>4. CASE \E c \in dests : AsyncToBatch(c)
    <3>1. PICK c \in dests : AsyncToBatch(c)
      BY <2>4
    <3>2. ~setup.summary /\ asyncThread.rest[c] # <<>>
      BY <1>0, <3>1 DEF AsyncToBatch, AsyncTyped
    <3>3. PICK t : /\ asyncThread' = AfterGiving(Given(c, t))
                   /\ t = Tail(asyncThread.rest[c]) \/ t = <<>>
      BY <3>1 DEF AsyncToBatch
    <3>4. asyncThread'.rest = Given(c, t)
      BY <1>0, <3>3 DEF AfterGiving, AfterSend, AsyncTyped
    <3>5. Rest(d)' = IF d = c THEN t ELSE Rest(d)
      BY <1>0, <3>2, <3>4 DEF Given, Rest, AsyncTyped
    <3>6. CASE d = c /\ t = Tail(asyncThread.rest[c])
      <4>1. Rest(d) \in Seq(Events) /\ Rest(d) # <<>> /\ t = Tail(Rest(d))
        BY <1>0, <3>2, <3>6 DEF Rest, AsyncTyped
      <4>2. Increasing(Tail(Rest(d)))
        BY <1>0, <2>1, <4>1
      <4> QED BY <3>5, <3>6, <4>1, <4>2
    <3>7. CASE d # c \/ t = <<>>
      BY <1>0, <1>e, <3>5, <3>7
    <3> QED BY <3>3, <3>6, <3>7
  <2>5. CASE AsyncLoop \/ AsyncTests \/ AsyncStops \/ HookStops
    <3>1. asyncThread'.hand = asyncThread.hand /\ asyncThread'.rest = asyncThread.rest
      BY <1>0, <2>5 DEF AsyncLoop, AsyncTests, AsyncStops, HookStops, AsyncTyped
    <3> QED BY <1>0, <3>1 DEF Rest
  <2>6. CASE UNCHANGED asyncThread
    BY <1>0, <2>6 DEF Rest
  <2> QED
    BY <2>2, <2>3, <2>4, <2>5, <2>6 DEF Next, Log, AsyncRun, SummaryRun, BatchRun, Hook, LogFindsRoom, LogAdds,
        SummaryLoop, SummaryPolls, SummaryChecks, SummarySends, SummaryClears, SummaryTests, SummaryStops,
        BatchTakes, BatchSends, BatchEnds, HookStarts, HookDrains, HookSeesEmpty, Halt
<1>3. Increasing(summary)'
  <2>1. CASE AsyncToSummary
    <3>1. asyncThread.hand # <<>> /\ Rest(d) = asyncThread.hand
      BY <1>0, <2>1 DEF AsyncToSummary, AsyncAt, AsyncTyped, Rest
    <3>2. Head(asyncThread.hand) \in Events /\ Head(asyncThread.hand) \in Handed(d)
      BY <1>0, <3>1, ToSetTail DEF AsyncTyped, Handed
    <3>3. \A e \in ToSet(summary) : e < Head(asyncThread.hand)
      BY <3>2 DEF InvFor, Ordered, Below, Summed
    <3>4. Increasing(Append(summary, Head(asyncThread.hand)))
      BY <1>0, <3>2, <3>3, IncreasingAppend DEF SummaryTyped
    <3> QED BY <1>0, <2>1, <3>4 DEF AsyncToSummary
  <2>2. CASE summary' = summary \/ summary' = <<>>
    BY <1>0, <1>e, <2>2
  <2> QED
    BY <2>1, <2>2 DEF Next, Log, AsyncRun, SummaryRun, BatchRun, Hook, LogFindsRoom, LogAdds, AsyncLoop, AsyncTakes,
        AsyncToBatch, AsyncTests, AsyncStops, SummaryLoop, SummaryPolls, SummaryChecks,
        SummarySends, SummaryClears, SummaryTests, SummaryStops, BatchTakes, BatchSends, BatchEnds,
        HookStarts, HookDrains, HookSeesEmpty, HookStops, Halt
<1> QED BY <1>1, <1>2, <1>3

(* Older events stay further on, and the records keep their order.         *)
LEMMA OrderedStep == ASSUME Typed, NEW d \in dests, InvFor(d), Next PROVE Ordered(d)' /\ InOrder(d)'
<1>0. Seen(d) /\ Ordered(d) /\ InOrder(d) /\ setup' = setup
  BY Effects DEF InvFor, Ordered
<1>1. /\ Mapped \subseteq Events /\ Queued \subseteq Events /\ Handed(d) \subseteq Events /\ Summed \subseteq Events
      /\ logged \in Nat
  BY SetsTyped
<1>2. \A e \in Mapped \cup Summed \cup Handed(d) \cup Queued : e < logged + 1
  <2> SUFFICES ASSUME NEW e \in OnTheWay(d) PROVE e < logged + 1
    BY DEF OnTheWay
  <2>1. e \in Events /\ e <= logged
    BY <1>1 DEF InvFor, Known, OnTheWay
  <2> QED BY <1>1, <2>1 DEF Events
<1>3. /\ Below(Mapped', Summed' \cup Handed(d)' \cup Queued')
      /\ Below(Summed', Handed(d)' \cup Queued')
      /\ Below(Handed(d)', Queued')
  <2>1. /\ Below(Mapped, Summed \cup Handed(d) \cup Queued)
        /\ Below(Summed, Handed(d) \cup Queued)
        /\ Below(Handed(d), Queued)
    BY <1>0 DEF Ordered
  <2>2. CASE Still(d)
    BY <2>1, <2>2 DEF Still
  <2>3. CASE Accepts(d)
    BY <1>2, <2>1, <2>3 DEF Accepts, Below
  <2>4. CASE Takes(d)
    BY <2>1, <2>4 DEF Takes, Below
  <2>5. CASE Summarises(d)
    BY <2>1, <2>5 DEF Summarises, Passes, Below
  <2>6. CASE Refuses(d) \/ Fails(d)
    BY <2>1, <2>6 DEF Refuses, Fails, Below
  <2>7. CASE Delivers(d)
    BY <2>1, <2>7 DEF Delivers, Passes, Below
  <2>8. CASE Counts(d)
    BY <2>1, <2>8 DEF Counts, Below
  <2>9. CASE Sends(d)
    <3>1. Mapped' \subseteq Mapped /\ UNCHANGED <<Summed, Handed(d), Queued>>
      BY <2>9 DEF Sends
    <3> QED BY <2>1, <3>1 DEF Below
  <2> QED BY <1>0, <2>2, <2>3, <2>4, <2>5, <2>6, <2>7, <2>8, <2>9 DEF Seen
<1>4. PICK r \in SUBSET OnTheWay(d) : New(d, r) /\ BelowOfKey(r, OnTheWay(d)')
  BY <1>0, Passing
<1>6. BelowOfKey(r, OnTheWay(d)') /\ r \in SUBSET Events
  BY <1>1, <1>4 DEF OnTheWay
<1>7. ASSUME NEW i \in DOMAIN RecordsFor(d)
      PROVE  BelowOfKey(RecordsFor(d)[i], OnTheWay(d)')
  <2>1. /\ logged' \in Nat /\ OnTheWay(d)' \subseteq OnTheWay(d) \cup (IF logged' = logged THEN {} ELSE {logged'})
        /\ logged <= logged'
    BY <1>0, Passing
  <2>2. RecordsFor(d)[i] \subseteq Events
    BY SetsTyped, ElementOfSeq, LenProperties DEF Records
  <2>3. (\A e \in RecordsFor(d)[i] : e <= logged) /\ BelowOfKey(RecordsFor(d)[i], OnTheWay(d))
    BY <1>0 DEF InvFor, Known, Ordered
  <2>4. \A e \in RecordsFor(d)[i] : logged' # logged => e < logged'
    BY <1>1, <2>1, <2>2, <2>3 DEF Events
  <2> QED BY <2>1, <2>3, <2>4 DEF BelowOfKey
<1> DEFINE n == Len(RecordsFor(d))
<1>8. /\ DOMAIN RecordsFor(d) = 1 .. n /\ n \in Nat
      /\ \A i \in DOMAIN RecordsFor(d) : RecordsFor(d)'[i] = RecordsFor(d)[i]
      /\ \A i \in DOMAIN RecordsFor(d)' :
            i \in DOMAIN RecordsFor(d) \/ (i = n + 1 /\ RecordsFor(d)'[i] = r)
  BY <1>4, <1>6, NewIsLast
<1> HIDE DEF n
<1>9. Ordered(d)'
  <2>1. \A i \in DOMAIN RecordsFor(d)' : BelowOfKey(RecordsFor(d)'[i], OnTheWay(d)')
    BY <1>6, <1>7, <1>8
  <2>2. Increasing(async)' /\ Increasing(Rest(d))' /\ Increasing(summary)'
    BY IncreasingStep
  <2>3. \A i \in DOMAIN RecordsFor(d)' : BelowOfKey(RecordsFor(d)[i], OnTheWay(d))'
    BY <1>0, <2>1 DEF BelowOfKey, EventKey
  <2>4. /\ Below(Mapped, Summed \cup Handed(d) \cup Queued)' /\ Below(Summed, Handed(d) \cup Queued)'
        /\ Below(Handed(d), Queued)'
    BY <1>3 DEF Below
  <2> QED BY <2>2, <2>3, <2>4 DEF Ordered
<1>10. InOrder(d)'
  <2>1. SUFFICES ASSUME NEW i \in DOMAIN RecordsFor(d)', NEW j \in DOMAIN RecordsFor(d)', i < j
                 PROVE  BelowOfKey(RecordsFor(d)'[i], RecordsFor(d)'[j])
    BY <1>0 DEF InOrder, BelowOfKey, EventKey
  <2>2. CASE j \in DOMAIN RecordsFor(d)
    <3>1. i \in DOMAIN RecordsFor(d)
      BY <1>8, <2>1, <2>2
    <3> QED BY <1>0, <1>8, <2>1, <2>2, <3>1 DEF InOrder
  <2>3. CASE j = n + 1 /\ RecordsFor(d)'[j] = r
    <3>1. i \in DOMAIN RecordsFor(d)
      BY <1>8, <2>1, <2>3
    <3>2. BelowOfKey(RecordsFor(d)[i], OnTheWay(d))
      BY <1>0, <3>1 DEF Ordered
    <3> QED BY <1>4, <1>8, <2>3, <3>1, <3>2 DEF BelowOfKey
  <2> QED BY <1>8, <2>1, <2>2, <2>3
<1> QED BY <1>9, <1>10

(* What is on its way is neither failed nor dropped nor counted.           *)
LEMMA OnTheWayOnce ==
    ASSUME Typed, NEW d \in dests, InvFor(d), NEW e \in OnTheWay(d)
    PROVE  e \notin failed[d] \cup dropped /\ CountedIn(e, d) = {}
<1>1. e \in Events /\ e <= logged
  BY SetsTyped DEF OnTheWay, InvFor, Known
<1>2. Once(e, d)
  BY <1>1, SetsTyped DEF InvFor, AllOnce, Events
<1> QED BY <1>2 DEF Once, OnTheWay

(* What was counted stays so, and what has failed is not counted later.    *)
LEMMA CountsStay ==
    ASSUME Typed, NEW d \in dests, InvFor(d), Next, NEW e
    PROVE  /\ CountedIn(e, d) # {} => CountedIn(e, d)' # {}
           /\ e \in failed[d] => e \in failed'[d] /\ CountedIn(e, d)' = CountedIn(e, d)
<1>0. Seen(d) /\ Ordered(d)
  BY Effects DEF InvFor, Ordered
<1>1. PICK r \in SUBSET OnTheWay(d) : New(d, r)
  BY <1>0, Passing
<1>2. r \in SUBSET Events
  BY SetsTyped DEF OnTheWay
<1>3. /\ RecordsFor(d)' = RecordsFor(d) \/ e \notin r => CountedIn(e, d)' = CountedIn(e, d)
      /\ RecordsFor(d)' = Append(RecordsFor(d), r) /\ e \in r =>
            CountedIn(e, d)' = CountedIn(e, d) \cup {Len(RecordsFor(d)) + 1}
  BY <1>1, <1>2, NewCounted
<1>4. e \in failed[d] => e \notin r
  BY <1>1, OnTheWayOnce
<1>5. e \in failed[d] => e \in failed'[d]
  BY <1>0 DEF Seen, Still, Accepts, Takes, Summarises, Refuses, Delivers, Fails, Counts, Sends,
              Quiet, Gains, Loses
<1> QED BY <1>1, <1>3, <1>4, <1>5 DEF New

(* The later event of its list that makes a counted one reported.          *)
LEMMA ReportStays ==
    ASSUME Typed, NEW d \in dests, InvFor(d), Next, NEW e, ReportedWithLater(e, d)
    PROVE  ReportedWithLater(e, d)'
<1>1. setup' = setup
  BY Effects DEF InvFor, Ordered
<1>2. PICK f \in failed[d] : e < f /\ CountedIn(f, d) = {}
  BY DEF ReportedWithLater
<1>3. f \in failed'[d] /\ CountedIn(f, d)' = {}
  BY <1>2, CountsStay
<1> QED BY <1>1, <1>2, <1>3 DEF ReportedWithLater, Multi, dests

(* The list in the hand goes to the destinations from its front.           *)
LEMMA ListStep == ASSUME Typed, NEW d \in dests, InvFor(d), Next PROVE ListGoesOn(d)'
<1>0. Seen(d) /\ ListGoesOn(d)
  BY Effects DEF InvFor, Ordered
<1>1. /\ Whole \subseteq Events /\ Queued \subseteq Events /\ Handed(d) \subseteq Events /\ logged \in Nat
      /\ \A e \in Whole : e <= logged
  BY SetsTyped, WholeKnown DEF InvFor
<1>2. CASE Whole' = {} /\ Handed(d)' = {}
  BY <1>2 DEF ListGoesOn, Below
<1>3. ASSUME NEW e, CountedIn(e, d) # {} PROVE CountedIn(e, d)' # {}
  BY <1>3, CountsStay
<1>4. CASE (Still(d) \/ Counts(d)) /\ Whole' = Whole
  <2>1. UNCHANGED <<Whole, Handed(d), Queued, dropped>> /\ failed'[d] = failed[d]
    BY <1>4 DEF Still, Counts, Quiet
  <2> QED BY <1>0, <1>3, <2>1 DEF ListGoesOn, Below
<1>5. CASE Accepts(d)
  <2>1. /\ UNCHANGED <<Whole, Handed(d), dropped>> /\ failed'[d] = failed[d]
        /\ Queued' = Queued \cup {logged + 1}
    BY <1>5 DEF Accepts, Quiet
  <2>2. \A e \in Whole : e < logged + 1
    <3> SUFFICES ASSUME NEW e \in Whole PROVE e < logged + 1
      OBVIOUS
    <3>1. e \in Events /\ e <= logged
      BY <1>1
    <3> QED BY <1>1, <3>1 DEF Events
  <2> QED BY <1>0, <1>3, <2>1, <2>2 DEF ListGoesOn, Below
<1>6. CASE Takes(d)
  <2>1. Whole' = Queued /\ Handed(d)' = Queued /\ Queued' = {} /\ dropped' = dropped /\ failed'[d] = failed[d]
    BY <1>6 DEF Takes, Quiet
  <2>2. Queued \cap (failed[d] \cup dropped) = {}
    BY OnTheWayOnce DEF OnTheWay
  <2> QED BY <2>1, <2>2 DEF ListGoesOn, Below
<1>7. CASE Summarises(d)
  <2>1. /\ Whole = Handed(d) /\ Whole' = Handed(d)' /\ Handed(d)' \subseteq Handed(d) /\ Handed(d) # {}
        /\ UNCHANGED <<Queued, dropped>> /\ failed'[d] = failed[d]
    BY <1>7 DEF Summarises, Passes, Quiet
  <2> QED BY <1>0, <2>1 DEF ListGoesOn, Below
<1>8. CASE Refuses(d)
  BY <1>2, <1>8 DEF Refuses
<1>9. CASE Delivers(d) /\ Whole' = Whole
  <2>1. PICK h \in Handed(d) : Passes(d, h) /\ Gains(d, {h})
    BY <1>9 DEF Delivers
  <2>2. UNCHANGED <<Whole, Queued, dropped>> /\ failed'[d] = failed[d] /\ Handed(d)' = Handed(d) \ {h}
    BY <1>9, <2>1 DEF Delivers, Gains, Passes
  <2>3. CountedIn(h, d)' # {}
    <3>1. {h} \in SUBSET Events /\ New(d, {h}) /\ h \in {h}
      BY <1>1, <2>1 DEF New, Gains
    <3>2. RecordsFor(d)' = Append(RecordsFor(d), {h})
      BY <2>1 DEF Gains
    <3>3. CountedIn(h, d)' = CountedIn(h, d) \cup {Len(RecordsFor(d)) + 1}
      BY <3>1, <3>2, NewCounted
    <3> QED BY <3>3
  <2>4. \A e \in Handed(d)' : h < e
    BY <2>1 DEF Passes
  <2>5. Below(Whole \ Handed(d)', Handed(d)')
    BY <1>0, <2>2, <2>4 DEF ListGoesOn, Below
  <2> QED BY <1>0, <1>3, <2>2, <2>3, <2>5 DEF ListGoesOn, Below
<1>10. CASE Fails(d) /\ Whole' = Whole
  <2>1. /\ UNCHANGED <<Whole, Queued, dropped>> /\ Handed(d)' = {} /\ failed'[d] = failed[d] \cup Whole
    BY <1>10 DEF Fails, Loses
  <2> QED BY <1>0, <2>1 DEF ListGoesOn, Below
<1>11. CASE Sends(d)
  <2>1. UNCHANGED <<Whole, Handed(d), Queued, dropped>>
    BY <1>11 DEF Sends
  <2>2. failed[d] \subseteq failed'[d] /\ failed'[d] \subseteq failed[d] \cup Mapped
    BY <1>11 DEF Sends, Gains, Loses
  <2>3. \A e \in Handed(d) : e \notin Mapped
    <3> SUFFICES ASSUME NEW e \in Handed(d) PROVE e \notin Mapped
      OBVIOUS
    <3>1. e \in 1 .. logged
      BY <1>1, SetsTyped DEF InvFor, Known, OnTheWay, Events
    <3> QED BY <3>1 DEF InvFor, AllOnce, Once
  <2>4. \A e \in Mapped : e \notin failed[d] \cup dropped /\ CountedIn(e, d) = {}
    BY OnTheWayOnce DEF OnTheWay
  <2>5. Whole \cap Mapped = {}
    BY <1>0, <2>3, <2>4 DEF ListGoesOn
  <2> QED BY <1>0, <1>3, <2>1, <2>2, <2>5 DEF ListGoesOn, Below
<1>12. CASE (Still(d) \/ Delivers(d) \/ Fails(d)) /\ HandKept(d)
  BY <1>2, <1>4, <1>9, <1>10, <1>12 DEF HandKept
<1>13. (Still(d) \/ Delivers(d) \/ Fails(d)) => HandKept(d)
  BY DEF Still, Delivers, Fails
<1>14. Counts(d) => Whole' = Whole
  BY DEF Counts
<1> QED BY <1>0, <1>4, <1>5, <1>6, <1>7, <1>8, <1>11, <1>12, <1>13, <1>14 DEF Seen

(* An event is in one place, and moves from there to one.                  *)
LEMMA OnceStep == ASSUME Typed, NEW d \in dests, InvFor(d), Next PROVE AllOnce(d)'
<1>0. Seen(d) /\ Ordered(d) /\ ListGoesOn(d)
  BY Effects DEF InvFor, Ordered
<1>1. /\ Mapped \subseteq Events /\ Queued \subseteq Events /\ Handed(d) \subseteq Events /\ Summed \subseteq Events
      /\ Whole \subseteq Events /\ dropped \subseteq Events /\ failed[d] \subseteq Events /\ logged \in Nat
  BY SetsTyped
<1>2. SUFFICES ASSUME NEW e \in 1 .. logged' PROVE Once(e, d)'
  BY DEF AllOnce
<1>3. ASSUME Quiet(d) PROVE failed'[d] = failed[d] /\ CountedIn(e, d)' = CountedIn(e, d)
  BY <1>3 DEF Quiet, CountedIn
<1>4. ASSUME logged' = logged PROVE Once(e, d)
  BY <1>4 DEF InvFor, AllOnce
<1>5. ReportedWithLater(e, d) => ReportedWithLater(e, d)'
  BY ReportStays
<1>6. CASE Still(d)
  <2>1. Once(e, d) /\ failed'[d] = failed[d] /\ CountedIn(e, d)' = CountedIn(e, d)
    BY <1>3, <1>4, <1>6 DEF Still
  <2> QED BY <1>5, <1>6, <2>1 DEF Still, Once, OnTheWay
<1>7. CASE Accepts(d)
  <2>1. failed'[d] = failed[d] /\ CountedIn(e, d)' = CountedIn(e, d)
    BY <1>3, <1>7 DEF Accepts
  <2>2. CASE e = logged + 1
    <3>1. e \notin OnTheWay(d) \cup dropped \cup failed[d]
      BY <1>1, <2>2 DEF InvFor, Known
    <3>2. CountedIn(e, d) = {}
      BY <1>1, <2>2 DEF InvFor, Known, CountedIn
    <3>3. e \in Queued' /\ e \notin Handed(d)' \cup Summed' \cup Mapped' \cup dropped'
      BY <1>7, <2>2, <3>1 DEF Accepts, OnTheWay
    <3> QED BY <2>1, <3>1, <3>2, <3>3 DEF Once, OnTheWay
  <2>3. CASE e # logged + 1
    <3>1. e \in 1 .. logged
      BY <1>1, <1>7, <2>3 DEF Accepts
    <3>2. Once(e, d)
      BY <3>1 DEF InvFor, AllOnce
    <3> QED BY <1>5, <1>7, <2>1, <2>3, <3>2 DEF Accepts, Once, OnTheWay
  <2> QED BY <2>2, <2>3
<1>8. CASE Takes(d)
  <2>1. Once(e, d) /\ failed'[d] = failed[d] /\ CountedIn(e, d)' = CountedIn(e, d)
    BY <1>3, <1>4, <1>8 DEF Takes
  <2> QED BY <1>5, <1>8, <2>1 DEF Takes, Once, OnTheWay
<1>9. CASE Summarises(d)
  <2>1. Once(e, d) /\ failed'[d] = failed[d] /\ CountedIn(e, d)' = CountedIn(e, d)
    BY <1>3, <1>4, <1>9 DEF Summarises
  <2>2. PICK h \in Handed(d) : Handed(d)' = Handed(d) \ {h} /\ Summed' = Summed \cup {h}
    BY <1>9 DEF Summarises, Passes
  <2>3. UNCHANGED <<Queued, Mapped, dropped>>
    BY <1>9 DEF Summarises
  <2>4. CASE e = h
    BY <2>1, <2>2, <2>3, <2>4 DEF Once, OnTheWay
  <2>5. CASE e # h
    BY <1>5, <2>1, <2>2, <2>3, <2>5 DEF Once, OnTheWay
  <2> QED BY <2>4, <2>5
<1>10. CASE Refuses(d)
  <2>1. Once(e, d) /\ failed'[d] = failed[d] /\ CountedIn(e, d)' = CountedIn(e, d)
    BY <1>3, <1>4, <1>10 DEF Refuses
  <2>2. Handed(d)' = {} /\ dropped' = dropped \cup Handed(d) /\ UNCHANGED <<Queued, Summed, Mapped>>
    BY <1>10 DEF Refuses
  <2>3. CASE e \in Handed(d)
    BY <2>1, <2>2, <2>3 DEF Once, OnTheWay
  <2>4. CASE e \notin Handed(d)
    BY <1>5, <2>1, <2>2, <2>4 DEF Once, OnTheWay
  <2> QED BY <2>3, <2>4
<1>11. CASE Counts(d)
  <2>1. Once(e, d) /\ failed'[d] = failed[d] /\ CountedIn(e, d)' = CountedIn(e, d)
    BY <1>3, <1>4, <1>11 DEF Counts
  <2> QED BY <1>5, <1>11, <2>1 DEF Counts, Once, OnTheWay
<1>12. CASE Delivers(d)
  <2>1. PICK h \in Handed(d) : Passes(d, h) /\ Gains(d, {h})
    BY <1>12 DEF Delivers
  <2>2. Once(e, d)
    BY <1>4, <1>12 DEF Delivers
  <2>3. Handed(d)' = Handed(d) \ {h} /\ UNCHANGED <<Queued, Summed, Mapped, dropped>> /\ failed'[d] = failed[d]
    BY <1>12, <2>1 DEF Delivers, Passes, Gains
  <2>4. /\ e # h => CountedIn(e, d)' = CountedIn(e, d)
        /\ e = h => CountedIn(e, d)' = CountedIn(e, d) \cup {Len(RecordsFor(d)) + 1}
    <3>1. PICK r \in SUBSET Events : r = {h}
      BY <1>1
    <3>2. New(d, r) /\ RecordsFor(d)' = Append(RecordsFor(d), r)
      BY <2>1, <3>1 DEF New, Gains
    <3> QED BY <3>1, <3>2, NewCounted
  <2>5. CASE e = h
    <3>1. PICK n : CountedIn(e, d)' = CountedIn(e, d) \cup {n}
      BY <2>4, <2>5
    <3>2. CountedIn(e, d) = {} /\ e \notin Handed(d)' /\ e \notin Queued \cup Summed \cup Mapped \cup failed[d] \cup dropped
      BY <2>2, <2>3, <2>5 DEF Once
    <3> QED BY <2>3, <3>1, <3>2 DEF Once
  <2>6. CASE e # h
    BY <1>5, <2>2, <2>3, <2>4, <2>6 DEF Once, OnTheWay
  <2> QED BY <2>5, <2>6
<1>13. CASE Fails(d)
  <2>1. /\ Handed(d) # {} /\ Handed(d)' = {} /\ failed'[d] = failed[d] \cup Whole /\ Multi /\ ~setup.summary
        /\ UNCHANGED <<logged, Queued, Summed, Mapped, dropped>> /\ RecordsFor(d)' = RecordsFor(d)
    BY <1>13 DEF Fails, Loses
  <2>2. Once(e, d) /\ \A f : CountedIn(f, d)' = CountedIn(f, d)
    BY <1>4, <2>1 DEF CountedIn
  <2>3. CASE e \in Handed(d)
    <3>1. e \in Whole
      BY <1>0, <2>3 DEF ListGoesOn
    <3> QED BY <2>1, <2>2, <2>3, <3>1 DEF Once
  <2>4. CASE e \in Whole \ Handed(d)
    <3>1. CountedIn(e, d) # {}
      BY <1>0, <2>1, <2>4 DEF ListGoesOn
    <3>2. PICK f \in Handed(d) : e < f
      BY <1>0, <2>1, <2>4 DEF ListGoesOn, Below
    <3>3. f \in failed'[d] /\ CountedIn(f, d)' = {}
      <4>1. f \in Whole
        BY <1>0 DEF ListGoesOn
      <4>2. CountedIn(f, d) = {}
        BY OnTheWayOnce DEF OnTheWay
      <4> QED BY <2>1, <2>2, <4>1, <4>2
    <3>4. ReportedWithLater(e, d)'
      <4>1. setup' = setup
        BY Effects, <1>0 DEF Ordered
      <4> QED BY <2>1, <3>2, <3>3, <4>1 DEF ReportedWithLater, Multi, dests
    <3> QED BY <2>1, <2>2, <2>4, <3>1, <3>4 DEF Once
  <2>5. CASE e \notin Whole /\ e \notin Handed(d)
    BY <1>5, <2>1, <2>2, <2>5 DEF Once, OnTheWay
  <2> QED BY <2>3, <2>4, <2>5
<1>14. CASE Sends(d)
  <2>1. PICK k \in Names :
            /\ Mapped' = Mapped \ {f \in Mapped : EventKey[f] = k}
            /\ Gains(d, {f \in Mapped : EventKey[f] = k}) \/ Loses(d, {f \in Mapped : EventKey[f] = k})
    BY <1>14 DEF Sends
  <2>0. PICK r \in SUBSET Events : r = {f \in Mapped : EventKey[f] = k}
    BY <1>1
  <2>2. r \subseteq Mapped /\ Mapped' = Mapped \ r /\ (Gains(d, r) \/ Loses(d, r))
    BY <2>0, <2>1
  <2>3. Once(e, d) /\ UNCHANGED <<Queued, Handed(d), Summed, dropped>>
    BY <1>4, <1>14 DEF Sends
  <2>4. /\ RecordsFor(d)' = RecordsFor(d) \/ e \notin r => CountedIn(e, d)' = CountedIn(e, d)
        /\ RecordsFor(d)' = Append(RecordsFor(d), r) /\ e \in r =>
              CountedIn(e, d)' = CountedIn(e, d) \cup {Len(RecordsFor(d)) + 1}
    <3>1. New(d, r)
      BY <2>2 DEF New, Gains, Loses
    <3> QED BY <3>1, NewCounted
  <2>5. failed'[d] = failed[d] \/ failed'[d] = failed[d] \cup r
    BY <2>2 DEF Gains, Loses
  <2>6. CASE e \notin r
    BY <1>5, <2>2, <2>3, <2>4, <2>5, <2>6 DEF Once, OnTheWay
  <2>7. CASE e \in r
    <3>1. CountedIn(e, d) = {} /\ e \notin Handed(d) \cup Queued \cup Summed \cup failed[d] \cup dropped
      BY <2>2, <2>3, <2>7 DEF Once
    <3>2. e \notin Mapped'
      BY <2>2, <2>7
    <3>3. CASE Loses(d, r)
      <4>1. CountedIn(e, d)' = {} /\ e \in failed'[d]
        BY <2>4, <2>7, <3>1, <3>3 DEF Loses
      <4> QED BY <2>3, <3>1, <3>2, <4>1 DEF Once
    <3>4. CASE Gains(d, r)
      <4>1. PICK n : CountedIn(e, d)' = {n}
        <5>1. CountedIn(e, d)' = CountedIn(e, d) \cup {Len(RecordsFor(d)) + 1}
          BY <2>4, <2>7, <3>4 DEF Gains
        <5>2. CountedIn(e, d)' = {Len(RecordsFor(d)) + 1}
          BY <3>1, <5>1
        <5> QED BY <5>2
      <4>2. failed'[d] = failed[d]
        BY <3>4 DEF Gains
      <4> QED BY <2>3, <3>1, <3>2, <4>1, <4>2 DEF Once
    <3> QED BY <2>2, <3>3, <3>4
  <2> QED BY <2>6, <2>7
<1> QED BY <1>0, <1>6, <1>7, <1>8, <1>9, <1>10, <1>11, <1>12, <1>13, <1>14 DEF Seen

-----------------------------------------------------------------------------
(* At the start everything is empty.                                       *)
LEMMA InitInv == Init => Inv
<1> SUFFICES ASSUME Init PROVE Inv
  OBVIOUS
<1> USE DEF Init
<1>1. Cardinality({}) = 0 /\ Cardinality(Loggers) \in Nat /\ Len(<<>>) = 0
  BY LoggerAssumption, FS_EmptySet, FS_CardinalityType
<1>2. HostTyped
  BY <1>1, SizeAssumption DEF HostTyped
<1>3. AsyncTyped
  BY DEF AsyncTyped
<1>4. SummaryTyped
  <2>1. setup.summary \in BOOLEAN
    BY SetupAssumption
  <2> QED BY <1>1, <2>1, SizeAssumption DEF SummaryTyped, Records
<1>5. BatchTyped
  <2>1. \A d \in dests : Len(batch[d]) = 0
    BY <1>1
  <2> QED BY <2>1, SizeAssumption DEF BatchTyped, Records
<1>6. HookTyped
  BY DEF HookTyped
<1>7. InTurn
  <2>1. summaryThread.at \in {"loop", "none"} /\ ~summaryThread.isDrain
    OBVIOUS
  <2> QED BY <2>1 DEF InTurn
<1>8. ASSUME NEW d \in dests PROVE InvFor(d)
  <2>1. Summed = {} /\ Queued = {} /\ Whole = {}
    BY DEF Summed, Whole, Queued, ToSet
  <2>2. Rest(d) = <<>> /\ Handed(d) = {}
    BY DEF Rest, Handed, ToSet
  <2>3. Mapped = {}
    BY <1>1, SetupAssumption DEF Mapped, InMap, EventKey
  <2>4. RecordsFor(d) = <<>> /\ DOMAIN RecordsFor(d) = {} /\ failed[d] = {}
    <3>1. RecordsFor(d) = (<<>> \o <<>>) \o <<>>
      BY DEF RecordsFor
    <3>2. (<<>> \o <<>>) \o <<>> = <<>> /\ DOMAIN <<>> = {}
      OBVIOUS
    <3> QED BY <3>1, <3>2
  <2>5. OnTheWay(d) = {} /\ dropped = {}
    BY <2>1, <2>2, <2>3 DEF OnTheWay
  <2>6. Known(d)
    BY <2>4, <2>5 DEF Known
  <2>7. Ordered(d) /\ InOrder(d)
    BY <2>1, <2>2, <2>3, <2>4 DEF Ordered, InOrder, Increasing, Below
  <2>8. ListGoesOn(d)
    BY <2>1, <2>2 DEF ListGoesOn, Below
  <2>9. AllOnce(d)
    <3>1. logged = 0
      OBVIOUS
    <3> QED BY <3>1 DEF AllOnce
  <2> QED BY <2>6, <2>7, <2>8, <2>9 DEF InvFor
<1> QED BY <1>2, <1>3, <1>4, <1>5, <1>6, <1>7, <1>8 DEF Inv, Typed

(* The parts of the invariant together are inductive.                      *)
LEMMA Inductive == Inv /\ [Next]_vars => Inv'
<1>1. Inv /\ Next => Inv'
  <2> SUFFICES ASSUME Inv, Next PROVE Inv'
    OBVIOUS
  <2>1. Typed' /\ InTurn'
    BY HostStep, AsyncStep, SummaryStep, BatchStep, HookStep, InTurnStep DEF Inv, Typed
  <2>2. ASSUME NEW d \in dests PROVE InvFor(d)' /\ dests' = dests
    <3>1. Typed /\ InvFor(d)
      BY DEF Inv
    <3>2. Known(d)' /\ Ordered(d)' /\ InOrder(d)' /\ ListGoesOn(d)' /\ AllOnce(d)'
      BY <3>1, KnownStep, OrderedStep, ListStep, OnceStep
    <3>3. setup' = setup
      BY <3>1, Effects DEF InvFor, Ordered
    <3> QED BY <3>2, <3>3 DEF InvFor, dests
  <2>3. dests' = dests \/ dests = {}
    BY <2>2
  <2>4. dests' = dests
    BY <2>3, SetupAssumption DEF Inv, Typed, HostTyped, dests
  <2> QED BY <2>1, <2>2, <2>4 DEF Inv
<1>2. Inv /\ UNCHANGED vars => Inv'
  <2> SUFFICES ASSUME Inv, UNCHANGED vars PROVE Inv'
    OBVIOUS
  <2>1. HostTyped' /\ AsyncTyped' /\ SummaryTyped' /\ BatchTyped' /\ HookTyped'
    BY DEF Inv, vars, Typed, HostTyped, AsyncTyped, SummaryTyped, BatchTyped, HookTyped, dests, Multi, EventKey
  <2>2. InTurn'
    BY DEF Inv, InTurn, vars
  <2>3. ASSUME NEW d \in dests PROVE InvFor(d)'
    <3>1. /\ UNCHANGED <<Queued, Whole, Handed(d), Summed, Mapped, OnTheWay(d), logged, dropped, failed>>
          /\ RecordsFor(d)' = RecordsFor(d) /\ Rest(d)' = Rest(d) /\ UNCHANGED <<async, summary>>
          /\ Multi' = Multi /\ setup' = setup
          /\ \A e : CountedIn(e, d)' = CountedIn(e, d)
      BY DEF vars, Queued, Whole, Handed, Rest, Summed, Mapped, InMap, OnTheWay, RecordsFor, CountedIn, Multi, dests, EventKey
    <3>2. InvFor(d)
      BY DEF Inv
    <3>3. Known(d)'
      BY <3>1, <3>2 DEF InvFor, Known
    <3>4. Ordered(d)' /\ InOrder(d)'
      BY <3>1, <3>2 DEF InvFor, Ordered, InOrder, Increasing, Below, BelowOfKey, EventKey
    <3>5. ListGoesOn(d)'
      BY <3>1, <3>2 DEF InvFor, ListGoesOn, Below
    <3>6. AllOnce(d)'
      BY <3>1, <3>2 DEF InvFor, AllOnce, Once, ReportedWithLater
    <3> QED BY <3>3, <3>4, <3>5, <3>6 DEF InvFor
  <2>4. dests' = dests
    BY DEF vars, dests
  <2> QED BY <2>1, <2>2, <2>3, <2>4 DEF Inv, Typed
<1> QED BY <1>1, <1>2

(* Every behaviour keeps the invariant.                                    *)
THEOREM InvHolds == Spec => []Inv
  BY InitInv, Inductive, PTL DEF Spec

(* Every variable has its type, the queues of the summary and the batches  *)
(* never hold more than they may, and the async queue at most one event    *)
(* more for each further thread that logs: size() and add() of its log are *)
(* not atomic.                                                             *)
THEOREM TypeCorrect == Spec => []TypeOK
<1>1. Inv => TypeOK
  <2> SUFFICES ASSUME Inv PROVE TypeOK
    OBVIOUS
  <2>1. logged \in 0 .. MaxEvents
    BY SetsTyped, SizeAssumption DEF Inv
  <2>2. {batch, buffer, sent} \subseteq [dests -> Seq(Records)]
    BY DEF Inv, Typed, BatchTyped
  <2>3. buffer \in [dests -> Seq(Records)]
    BY DEF Inv, Typed, BatchTyped
  <2> QED BY <2>1, <2>2, <2>3 DEF Inv, Typed, HostTyped, AsyncTyped, SummaryTyped, BatchTyped, HookTyped, TypeOK
<1> QED BY <1>1, InvHolds, PTL

(* When the summary queue's thread has ended by itself, the async queue's  *)
(* has ended before it, and nothing is left behind in either.              *)
THEOREM ThreadsEndInTurn == Spec => []ShutdownInTurn
<1>1. Inv => ShutdownInTurn
  BY DEF Inv, Typed, AsyncTyped, InTurn, ShutdownInTurn
<1> QED BY <1>1, InvHolds, PTL

(* Whatever the interleaving of queues, summaries and failures, each       *)
(* destination gets the records of a key in the order of their events.     *)
THEOREM RecordsInOrder == Spec => []KeysInOrder
<1>1. Inv => KeysInOrder
  BY DEF Inv, InvFor, InOrder, BelowOfKey, KeysInOrder
<1> QED BY <1>1, InvHolds, PTL

(* Every accepted event is, for each destination, in exactly one place: it *)
(* is counted in one record, or on its way to one, or was given up once.   *)
(* Only a report of the whole list may come on top of its record, and then *)
(* a later event of the list was refused.                                  *)
THEOREM EventsAccountedOnce == Spec => []AccountedOnce
<1>1. Inv => AccountedOnce
  <2> SUFFICES ASSUME Inv, NEW e \in 1 .. logged, NEW d \in dests
               PROVE  \/ \E w \in Where(e, d) : Where(e, d) = {w}
                      \/ /\ \E i \in CountedIn(e, d) : Where(e, d) = {<<"record", i>>, <<"failed", 0>>}
                         /\ ReportedWithLater(e, d)
    BY DEF AccountedOnce
  <2>1. Once(e, d)
    BY DEF Inv, InvFor, AllOnce
  <2>2. e \in Events
    BY SetsTyped, SizeAssumption DEF Inv, Events
  <2> DEFINE P == {p \in {"async", "hand", "summary", "map", "failed", "dropped"} : IsIn(p, e, d)}
             C == CountedIn(e, d)
  <2>3. Where(e, d) = ({"record"} \X C) \cup (P \X {0})
    BY DEF Where
  <2>4. /\ "async" \in P <=> e \in Queued
        /\ "hand" \in P <=> e \in Handed(d)
        /\ "summary" \in P <=> e \in Summed
        /\ "map" \in P <=> e \in Mapped
        /\ "failed" \in P <=> e \in failed[d]
        /\ "dropped" \in P <=> e \in dropped
    BY <2>2 DEF IsIn, Queued, Handed, Summed, Mapped
  <2>5. P \subseteq {"async", "hand", "summary", "map", "failed", "dropped"}
    OBVIOUS
  <2>6. C = CountedIn(e, d)
    OBVIOUS
  <2> HIDE DEF P, C
  <2>7. CASE C # {}
    <3>1. PICK i : C = {i}
      BY <2>1, <2>6, <2>7 DEF Once
    <3>2. CASE e \notin failed[d]
      <4>1. P = {}
        BY <2>1, <2>4, <2>5, <2>6, <2>7, <3>2 DEF Once
      <4>2. ({"record"} \X {i}) \cup ({} \X {0}) = {<<"record", i>>}
        OBVIOUS
      <4>3. Where(e, d) = {<<"record", i>>}
        BY <2>3, <3>1, <4>1, <4>2
      <4> QED BY <4>3
    <3>3. CASE e \in failed[d]
      <4>1. P = {"failed"} /\ ReportedWithLater(e, d)
        BY <2>1, <2>4, <2>5, <2>6, <2>7, <3>3 DEF Once
      <4>2. ({"record"} \X {i}) \cup ({"failed"} \X {0}) = {<<"record", i>>, <<"failed", 0>>}
        OBVIOUS
      <4>3. Where(e, d) = {<<"record", i>>, <<"failed", 0>>}
        BY <2>3, <3>1, <4>1, <4>2
      <4> QED BY <2>6, <3>1, <4>1, <4>3
    <3> QED BY <3>2, <3>3
  <2>8. CASE C = {}
    <3>1. PICK p : P = {p}
      <4>1. e \in Queued => P = {"async"}
        BY <2>1, <2>4, <2>5 DEF Once
      <4>2. e \in Handed(d) => P = {"hand"}
        BY <2>1, <2>4, <2>5 DEF Once
      <4>3. e \in Summed => P = {"summary"}
        BY <2>1, <2>4, <2>5 DEF Once
      <4>4. e \in Mapped => P = {"map"}
        BY <2>1, <2>4, <2>5 DEF Once
      <4>5. e \in failed[d] => P = {"failed"}
        BY <2>1, <2>4, <2>5 DEF Once
      <4>6. e \in dropped => P = {"dropped"}
        BY <2>1, <2>4, <2>5 DEF Once
      <4>7. e \in Queued \/ e \in Handed(d) \/ e \in Summed \/ e \in Mapped \/ e \in failed[d] \/ e \in dropped
        BY <2>1, <2>6, <2>8 DEF Once, OnTheWay
      <4> QED BY <4>1, <4>2, <4>3, <4>4, <4>5, <4>6, <4>7
    <3>2. ({"record"} \X {}) \cup ({p} \X {0}) = {<<p, 0>>}
      OBVIOUS
    <3>3. Where(e, d) = {<<p, 0>>}
      BY <2>3, <2>8, <3>1, <3>2
    <3> QED BY <3>3
  <2> QED BY <2>7, <2>8
<1> QED BY <1>1, InvHolds, PTL
=============================================================================
