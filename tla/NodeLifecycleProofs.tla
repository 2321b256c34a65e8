-------------------------- MODULE NodeLifecycleProofs --------------------------
(***************************************************************************)
(* Proofs about NodeLifecycle for any number of callers and any events,    *)
(* capacity and number of calls.                                           *)
(***************************************************************************)
EXTENDS NodeLifecycle, FiniteSetTheorems, FunctionTheorems, SequenceTheorems, TLAPS

-----------------------------------------------------------------------------
(* What events add *)

\* An event of a counted type adds one to its counter; one of an RPC adds to the
\* counters of its direction; the others add nothing.
LEMMA UpdatesOf ==
  ASSUME NEW evt \in Events
  PROVE  /\ Updates(evt) \in Seq(Additions)
         /\ evt.type \in DOMAIN Counter => Updates(evt) = <<Add(<<Counter[evt.type]>>, 1)>>
         /\ evt.type \in DOMAIN RPCStats =>
                \A k \in DOMAIN Updates(evt) :
                    \E a, b : Updates(evt)[k].counter = <<a, b>> /\ Updates(evt)[k].by \in Nat
         /\ evt.type \in {"GRAFT", "PRUNE"} => Updates(evt) = <<>>
<1>1. evt.type \in Types
  BY TracerAssumption
<1>2. CASE evt.type \in DOMAIN Counter
  <2>1. Updates(evt) = <<Add(<<Counter[evt.type]>>, 1)>>
    <3>1. evt.type \notin DOMAIN RPCStats
      BY <1>2 DEF Counter, RPCStats
    <3>2. QED
      BY <1>2, <3>1, Zenon DEF Updates
  <2>2. Add(<<Counter[evt.type]>>, 1) \in Additions
    BY <2>1 DEF Additions, Range
  <2>3. QED
    BY <1>2, <2>1, <2>2 DEF Counter, RPCStats
<1>3. CASE evt.type \in DOMAIN RPCStats
  <2> DEFINE s == [k \in DOMAIN RPCFields |->
                     Add(<<RPCStats[evt.type], RPCFields[k]>>, evt.meta[RPCFields[k]])]
  <2>1. evt.type \notin DOMAIN Counter
    BY <1>3 DEF Counter, RPCStats
  <2>2. Updates(evt) = s
    BY <1>3, <2>1, Zenon DEF Updates, countRPC, Stat
  <2>3. DOMAIN RPCFields = 1 .. 6
    BY DEF RPCFields
  <2>4. \A k \in 1 .. 6 : evt.meta[RPCFields[k]] \in Nat
    BY <1>3, <2>3, TracerAssumption DEF Range
  <2>5. \A k \in DOMAIN s : /\ s[k].counter = <<RPCStats[evt.type], RPCFields[k]>>
                            /\ s[k].by \in Nat
    BY <2>3, <2>4 DEF Add
  <2>6. \A k \in DOMAIN s : s[k] \in Additions
    BY <2>2 DEF Additions, Range
  <2>7. s \in Seq(Additions)
    <3>1. s \in [1 .. 6 -> Additions]
      BY <2>3, <2>6
    <3>2. QED
      BY <3>1, SeqDef
  <2>8. QED
    BY <1>3, <2>1, <2>2, <2>5, <2>7 DEF RPCStats
<1>4. CASE evt.type \in {"GRAFT", "PRUNE"}
  <2>1. evt.type \notin DOMAIN Counter /\ evt.type \notin DOMAIN RPCStats
    BY <1>4 DEF Counter, RPCStats
  <2>2. Updates(evt) = <<>>
    BY <2>1, Zenon DEF Updates
  <2>3. QED
    BY <2>1, <2>2
<1>5. QED
  BY <1>1, <1>2, <1>3, <1>4 DEF Types

\* Every addition is by a natural number, and by one to the counter of a type.
LEMMA AdditionsOf ==
  ASSUME NEW u \in Additions
  PROVE  /\ u.by \in Nat
         /\ \A y \in DOMAIN Counter :
                u.counter = <<Counter[y]>> => u = Add(<<Counter[y]>>, 1)
<1>0. PICK evt \in Events : u \in Range(Updates(evt))
  BY DEF Additions
<1>1. PICK k \in DOMAIN Updates(evt) : u = Updates(evt)[k]
  BY <1>0 DEF Range
<1>2. CASE evt.type \in DOMAIN Counter
  <2>1. u = Add(<<Counter[evt.type]>>, 1)
    BY <1>1, <1>2, UpdatesOf
  <2>2. QED
    BY <2>1 DEF Add
<1>3. CASE evt.type \in DOMAIN RPCStats
  <2>1. PICK a, b : u.counter = <<a, b>> /\ u.by \in Nat
    BY <1>1, <1>3, UpdatesOf
  <2>2. \A c : <<a, b>> # <<c>>
    <3>1. \A c : Len(<<a, b>>) = 2 /\ Len(<<c>>) = 1
      OBVIOUS
    <3>2. QED
      BY <3>1
  <2>3. QED
    BY <2>1, <2>2
<1>4. CASE evt.type \in {"GRAFT", "PRUNE"}
  <2>1. DOMAIN Updates(evt) = {}
    <3>1. Updates(evt) = <<>>
      BY <1>4, UpdatesOf
    <3>2. QED
      BY <3>1
  <2>2. QED
    BY <1>1, <2>1
<1>5. QED
  BY <1>2, <1>3, <1>4, TracerAssumption DEF Types

\* Different types have different counters.
LEMMA CountersDiffer ==
  ASSUME NEW x \in DOMAIN Counter, NEW y \in DOMAIN Counter, Counter[x] = Counter[y]
  PROVE  x = y
BY DEF Counter

-----------------------------------------------------------------------------
(* Counting in sequences *)

\* The places of a sequence where there is a member of P.
Places(s, P) == {n \in DOMAIN s : s[n] \in P}

\* There are finitely many.
LEMMA PlacesFinite ==
  ASSUME NEW S, NEW s \in Seq(S), NEW P
  PROVE  IsFiniteSet(Places(s, P)) /\ Cardinality(Places(s, P)) \in Nat
<1>1. IsFiniteSet(1 .. Len(s))
  BY FS_Interval
<1>2. Places(s, P) \subseteq 1 .. Len(s)
  BY DEF Places
<1>3. QED
  BY <1>1, <1>2, FS_Subset, FS_CardinalityType

\* An element appended counts if it is a member.
LEMMA AppendCounts ==
  ASSUME NEW S, NEW s \in Seq(S), NEW P, NEW e \in S
  PROVE  Cardinality(Places(Append(s, e), P)) =
            Cardinality(Places(s, P)) + IF e \in P THEN 1 ELSE 0
<1> DEFINE n == Len(s) + 1
<1>1. n \notin Places(s, P)
  BY DEF Places
<1>2. Places(Append(s, e), P) = IF e \in P THEN Places(s, P) \cup {n} ELSE Places(s, P)
  BY AppendProperties DEF Places
<1>3. IsFiniteSet(Places(s, P)) /\ Cardinality(Places(s, P)) \in Nat
  BY PlacesFinite
<1>4. Cardinality(Places(s, P) \cup {n}) = Cardinality(Places(s, P)) + 1
  BY <1>1, <1>3, FS_AddElement
<1>5. QED
  BY <1>2, <1>3, <1>4

\* The head of a sequence does not count any more in its tail.
LEMMA TailCounts ==
  ASSUME NEW S, NEW s \in Seq(S), s # <<>>, NEW P
  PROVE  Cardinality(Places(Tail(s), P)) =
            Cardinality(Places(s, P)) - IF Head(s) \in P THEN 1 ELSE 0
<1> DEFINE A == Places(Tail(s), P)
           B == Places(s, P) \ {1}
           f == [n \in A |-> n + 1]
<1>1. /\ Tail(s) \in Seq(S) /\ Len(Tail(s)) = Len(s) - 1 /\ Len(s) \in Nat /\ Len(s) >= 1
      /\ \A n \in 1 .. Len(s) - 1 : Tail(s)[n] = s[n + 1]
      /\ DOMAIN Tail(s) = 1 .. Len(s) - 1 /\ DOMAIN s = 1 .. Len(s)
      /\ Head(s) = s[1]
  BY HeadTailProperties
<1>2. f \in [A -> B]
  BY <1>1 DEF Places
<1>3. \A m, n \in A : f[m] = f[n] => m = n
  BY <1>1 DEF Places
<1>4. ASSUME NEW n \in B PROVE \E m \in A : f[m] = n
  <2>1. n - 1 \in A /\ f[n - 1] = n
    BY <1>1, <1>4 DEF Places
  <2>2. QED
    BY <2>1
<1>5. f \in Bijection(A, B)
  BY <1>2, <1>3, <1>4, Fun_IsBij
<1>6. IsFiniteSet(A) /\ IsFiniteSet(Places(s, P)) /\ Cardinality(Places(s, P)) \in Nat
  BY <1>1, PlacesFinite
<1> HIDE DEF A, B, f
<1>7. Cardinality(A) = Cardinality(B)
  <2>1. ExistsBijection(A, B)
    BY <1>5 DEF ExistsBijection
  <2>2. QED
    BY <1>6, <2>1, FS_Bijection
<1>8. Cardinality(B) =
         IF 1 \in Places(s, P) THEN Cardinality(Places(s, P)) - 1 ELSE Cardinality(Places(s, P))
  BY <1>6, FS_RemoveElement DEF B
<1>9. Head(s) \in P <=> 1 \in Places(s, P)
  BY <1>1 DEF Places
<1>10. QED
  BY <1>6, <1>7, <1>8, <1>9 DEF A

-----------------------------------------------------------------------------
(* Types *)

\* The first conjunct, at the start.
LEMMA InitTypes == Init => TypeOK
<1> SUFFICES ASSUME Init PROVE TypeOK
  OBVIOUS
<1> USE DEF Init, TracerInit, NotWhole
<1>1. IsCopy(<<>>)
  BY DEF IsCopy
<1>2. DOMAIN copied = Closers /\ \A c \in Closers : IsCopy(copied[c])
  BY <1>1
<1>3. /\ loop \in {"none", "running", "ended"} /\ todo \in Seq(Additions)
      /\ eventCh \in Seq(Events) /\ Len(eventCh) <= Capacity
      /\ doneCh \in 0 .. 1 /\ traced \in 0 .. MaxEvents
  BY TracerAssumption
<1>4. /\ metrics \in [Counters -> Nat]
      /\ tracing \in [Goroutines -> Events \cup {NoEvent}]
      /\ filtered \in [Types -> Nat] /\ dropped \in [Types -> Nat]
      /\ before \in [Closers -> {<<>>} \cup [Counters -> Nat]]
      /\ stop \in [Closers -> {"idle", "untraced", "stopping", "copying", "writing", "stopped",
                             "failed", "returned"}]
      /\ file \in NotWhole
  OBVIOUS
<1>5. QED
  BY <1>2, <1>3, <1>4 DEF TypeOK

\* A counter copied leaves a part of the metrics.
LEMMA CopyTypes ==
  ASSUME NEW x, IsCopy(x), NEW k \in Counters, NEW n \in Nat
  PROVE  IsCopy([z \in DOMAIN x \cup {k} |-> IF z = k THEN n ELSE x[z]])
BY DEF IsCopy

\* The steps of the tracer.
LEMMA StepTracerTypes ==
  ASSUME TypeOK, CopiesWithin,
         \/ \E c \in Closers :
                \/ StopSend(c) \/ (\E k \in Counters : StopCopy(c, k))
                \/ StopOpen(c) \/ StopOpenFails(c) \/ StopWrite(c) \/ StopWriteFails(c)
         \/ \E g \in Goroutines : TraceSend(g) \/ \E evt \in Events : Trace(g, evt)
         \/ TakeEvent \/ Update \/ TakeDone,
         UNCHANGED nodeVars
  PROVE  TypeOK'
<1> USE DEF nodeVars, traceVars, loopVars, stopVars
<1>1. ASSUME NEW c \in Closers, StopSend(c)
      PROVE  TypeOK'
  BY <1>1 DEF TypeOK, StopSend, DoneHasRoom
<1>2. ASSUME NEW c \in Closers, NEW k \in Counters, StopCopy(c, k)
      PROVE  TypeOK'
  <2>1. DOMAIN copied' = Closers /\ \A d \in Closers : IsCopy(copied'[d])
    <3> DEFINE v == [x \in DOMAIN copied[c] \cup {k} |->
                       IF x = k THEN metrics[k] ELSE copied[c][x]]
    <3>1. IsCopy(v)
      <4>1. IsCopy(copied[c]) /\ metrics[k] \in Nat
        BY DEF TypeOK
      <4>2. QED
        BY <4>1, CopyTypes
    <3>2. copied' = [copied EXCEPT ![c] = v]
      BY <1>2 DEF StopCopy
    <3> HIDE DEF v
    <3>3. QED
      BY <3>1, <3>2 DEF TypeOK
  <2>2. QED
    BY <1>2, <2>1 DEF TypeOK, StopCopy
<1>3. ASSUME NEW c \in Closers,
             StopOpen(c) \/ StopOpenFails(c) \/ StopWrite(c) \/ StopWriteFails(c)
      PROVE  TypeOK'
  <2>1. CASE StopOpen(c) \/ StopOpenFails(c)
    BY <2>1 DEF TypeOK, StopOpen, StopOpenFails, NotWhole
  <2>2. CASE StopWrite(c) \/ StopWriteFails(c)
    <3>1. copied[c] \in [Counters -> Nat]
      BY <1>3, <2>2 DEF TypeOK, StopWrite, StopWriteFails, CopiesWithin, IsCopy
    <3>2. Written(c) \in [by : Closers, metrics : [Counters -> Nat]]
      BY <3>1 DEF Written
    <3>3. file' \in {file, BrokenFile, Written(c)}
      BY <2>2 DEF StopWrite, StopWriteFails
    <3>4. file' \in NotWhole \cup [by : Closers, metrics : [Counters -> Nat]]
      BY <3>2, <3>3 DEF TypeOK, NotWhole
    <3>5. QED
      BY <2>2, <3>4 DEF TypeOK, StopWrite, StopWriteFails
  <2>3. QED
    BY <1>3, <2>1, <2>2
<1>4. ASSUME NEW g \in Goroutines, TraceSend(g)
      PROVE  TypeOK'
  <2>1. tracing[g] \in Events /\ tracing[g].type \in Types
    BY <1>4, TracerAssumption DEF TypeOK, TraceSend
  <2>2. eventCh' \in Seq(Events) /\ Len(eventCh') <= Capacity /\ dropped' \in [Types -> Nat]
    <3>1. \/ /\ Len(eventCh) < Capacity
             /\ eventCh' = Append(eventCh, tracing[g])
             /\ UNCHANGED dropped
          \/ /\ dropped' = [dropped EXCEPT ![tracing[g].type] = @ + 1]
             /\ UNCHANGED eventCh
      BY <1>4 DEF TraceSend, Offer
    <3>2. /\ Append(eventCh, tracing[g]) \in Seq(Events)
          /\ Len(Append(eventCh, tracing[g])) = Len(eventCh) + 1 /\ Len(eventCh) \in Nat
      BY <2>1, AppendProperties DEF TypeOK
    <3>3. Capacity \in Nat
      BY TracerAssumption
    <3>4. CASE /\ Len(eventCh) < Capacity /\ UNCHANGED dropped
               /\ eventCh' = Append(eventCh, tracing[g])
      <4>1. dropped' \in [Types -> Nat]
        BY <3>4 DEF TypeOK
      <4>2. eventCh' \in Seq(Events)
        BY <3>2, <3>4
      <4>3. Len(eventCh') = Len(eventCh) + 1
        BY <3>2, <3>4
      <4>4. QED
        BY <3>2, <3>3, <3>4, <4>1, <4>2, <4>3
    <3>5. CASE dropped' = [dropped EXCEPT ![tracing[g].type] = @ + 1] /\ UNCHANGED eventCh
      BY <2>1, <3>5 DEF TypeOK
    <3>6. QED
      BY <3>1, <3>4, <3>5
  <2>3. QED
    BY <1>4, <2>2 DEF TypeOK, TraceSend
<1>5. ASSUME NEW g \in Goroutines, NEW evt \in Events, Trace(g, evt)
      PROVE  TypeOK'
  <2>1. filtered' \in [Types -> Nat]
    BY <1>5, TracerAssumption DEF TypeOK, Trace, Filter
  <2>2. traced' \in 0 .. MaxEvents
    BY <1>5, TracerAssumption DEF TypeOK, Trace
  <2>3. QED
    BY <1>5, <2>1, <2>2 DEF TypeOK, Trace
<1>6. ASSUME TakeEvent
      PROVE  TypeOK'
  <2>1. /\ Head(eventCh) \in Events /\ Tail(eventCh) \in Seq(Events)
        /\ Len(Tail(eventCh)) <= Capacity
    BY <1>6, HeadTailProperties, TracerAssumption DEF TypeOK, TakeEvent
  <2>2. QED
    BY <1>6, <2>1, UpdatesOf DEF TypeOK, TakeEvent
<1>7. ASSUME Update
      PROVE  TypeOK'
  <2>1. Head(todo) \in Additions /\ Tail(todo) \in Seq(Additions)
    BY <1>7, HeadTailProperties DEF TypeOK, Update
  <2>2. metrics' \in [Counters -> Nat]
    BY <1>7, <2>1, AdditionsOf DEF TypeOK, Update
  <2>3. QED
    BY <1>7, <2>1, <2>2 DEF TypeOK, Update
<1>8. ASSUME TakeDone
      PROVE  TypeOK'
  BY <1>8 DEF TypeOK, TakeDone, Return
<1>9. QED
  BY <1>1, <1>2, <1>3, <1>4, <1>5, <1>6, <1>7, <1>8

\* No step leaves the types.
LEMMA StepTypes == TypeOK /\ CopiesWithin /\ [Next]_vars => TypeOK'
<1> SUFFICES ASSUME TypeOK, CopiesWithin, [Next]_vars PROVE TypeOK'
  OBVIOUS
<1> USE DEF nodeVars, tracerVars, traceVars, loopVars, stopVars
<1>1. ASSUME CreateHost \/ NewTestTracer \/ NewGossipSub \/ Abandon
      PROVE  TypeOK'
  BY <1>1 DEF TypeOK, CreateHost, NewTestTracer, NewGossipSub, Abandon, Stored
<1>2. ASSUME NEW c \in Closers, Close(c) \/ HostClose(c)
      PROVE  TypeOK'
  BY <1>2 DEF TypeOK, Close, HostClose
<1>3. ASSUME Terminated \/ UNCHANGED vars
      PROVE  TypeOK'
  BY <1>3 DEF TypeOK, Terminated, vars
<1>4. QED
  BY <1>1, <1>2, <1>3, StepTracerTypes
     DEF Next, Stop, TraceBegin, TraceEnd, EventLoop, LoopDone

-----------------------------------------------------------------------------
(* The loop and its owner *)

\* NewNode hands the loop it has started to the node, or loses it with the router.
LEMMA StepLoop == TypeOK /\ LoopAsBuilt /\ [Next]_vars => LoopAsBuilt'
<1> SUFFICES ASSUME TypeOK, LoopAsBuilt, [Next]_vars PROVE LoopAsBuilt'
  OBVIOUS
<1> USE DEF LoopAsBuilt, nodeVars, tracerVars, traceVars, loopVars, stopVars
<1>1. ASSUME CreateHost \/ NewTestTracer \/ NewGossipSub \/ Abandon
      PROVE  LoopAsBuilt'
  <2>1. CASE CreateHost \/ NewTestTracer
    BY <2>1 DEF CreateHost, NewTestTracer
  <2>2. CASE NewGossipSub
    BY <2>2 DEF NewGossipSub, Stored
  <2>3. CASE Abandon
    BY <2>3 DEF Abandon
  <2>4. QED
    BY <1>1, <2>1, <2>2, <2>3
<1>2. ASSUME NEW c \in Closers, Close(c) \/ Stop(c) \/ HostClose(c)
      PROVE  LoopAsBuilt'
  BY <1>2 DEF Close, HostClose, Stop, StopSend, StopCopy, StopOpen, StopOpenFails, StopWrite,
              StopWriteFails
<1>3. ASSUME NEW g \in Goroutines, TraceEnd(g) \/ \E evt \in Events : TraceBegin(g, evt)
      PROVE  LoopAsBuilt'
  BY <1>3 DEF TraceEnd, TraceSend, TraceBegin, Trace
<1>4. ASSUME EventLoop \/ LoopDone \/ Terminated \/ UNCHANGED vars
      PROVE  LoopAsBuilt'
  <2>1. UNCHANGED nodeVars /\ (loop' = loop \/ (loop = "running" /\ loop' = "ended"))
    BY <1>4 DEF EventLoop, LoopDone, TakeEvent, Update, TakeDone, Selecting, Return, Terminated,
                vars
  <2>2. QED
    BY <2>1
<1>5. QED
  BY <1>1, <1>2, <1>3, <1>4 DEF Next

-----------------------------------------------------------------------------
(* The aggregate file *)

\* The part of the invariant about what Stop copies and writes.
FileInv == CopiesWithin /\ BeforeKept /\ FileByStopped /\ FileWithinMetrics

\* Steps that only let the metrics grow.
LEMMA MetricsGrow ==
  ASSUME TypeOK, FileInv, UNCHANGED stopVars,
         \A k \in Counters : metrics'[k] \in Nat /\ metrics[k] <= metrics'[k]
  PROVE  FileInv'
<1> USE DEF stopVars
<1>1. ASSUME NEW c \in Closers
      PROVE  IsCopy(copied[c]) /\ (Copied(c) => before[c] \in [Counters -> Nat])
  BY DEF TypeOK, FileInv, BeforeKept
<1>2. CopiesWithin'
  BY <1>1 DEF FileInv, CopiesWithin, Copied, IsCopy, TypeOK
<1>3. BeforeKept' /\ FileByStopped'
  BY DEF FileInv, BeforeKept, FileByStopped, Copied, Alone
<1>4. FileWithinMetrics'
  <2>1. \A c \in Closers : stop[c] = "stopped" /\ Alone(c) => file = Written(c)
    BY DEF FileInv, FileWithinMetrics
  <2>2. \A c \in Closers : Alone(c)' = Alone(c) /\ Written(c)' = Written(c)
    BY DEF Alone, Written
  <2>3. ASSUME file \notin NotWhole, NEW k \in Counters
        PROVE  before[file.by][k] <= file.metrics[k] /\ file.metrics[k] <= metrics'[k]
    <3>1. before[file.by][k] <= file.metrics[k] /\ file.metrics[k] <= metrics[k]
      BY <2>3 DEF FileInv, FileWithinMetrics
    <3>2. file.metrics[k] \in Nat /\ metrics[k] \in Nat
      BY <2>3 DEF TypeOK
    <3>3. QED
      BY <3>1, <3>2
  <2>4. QED
    BY <2>1, <2>2, <2>3 DEF FileWithinMetrics
<1>5. QED
  BY <1>2, <1>3, <1>4 DEF FileInv

\* Places of a call of Close that has not come to the file.
Early == {"idle", "stopping", "copying"}

\* What the steps of one call do to the places: the others stay, and who has come to
\* the file, or past it, does not come back, so that nobody becomes alone.
LEMMA NobodyBecomesAlone ==
  ASSUME NEW c \in Closers, \A d \in Closers \ {c} : stop'[d] = stop[d],
         stop'[c] \in Early => stop[c] \in Early
  PROVE  /\ \A d \in Closers : Alone(d)' => Alone(d)
         /\ \A d \in Closers \ {c} : Alone(d)' => stop'[c] \in Early
BY DEF Alone, Early

\* What is known of the file stays when a call of Close moves on, and nothing else
\* that is looked at changes.
LEMMA FileKept ==
  ASSUME TypeOK, FileInv, NEW c \in Closers,
         UNCHANGED <<file, metrics>>,
         \A d \in Closers \ {c} :
            stop'[d] = stop[d] /\ copied'[d] = copied[d] /\ before'[d] = before[d],
         stop'[c] \in Early => stop[c] \in Early,
         stop'[c] \notin {"writing", "stopped"},
         stop[c] \in {"stopped", "failed", "returned"} =>
            before'[c] = before[c] /\ stop'[c] \in {"stopped", "failed", "returned"}
  PROVE  FileByStopped' /\ FileWithinMetrics'
<1>1. \A d \in Closers : Alone(d)' => Alone(d)
  BY NobodyBecomesAlone
<1>2. \A d \in Closers \ {c} : Written(d)' = Written(d)
  BY DEF Written
<1>3. file \notin NotWhole =>
        file.by \in Closers /\ stop[file.by] \in {"stopped", "failed", "returned"}
  BY DEF FileInv, FileByStopped, TypeOK
<1>4. FileByStopped'
  BY <1>1, <1>3 DEF FileInv, FileByStopped
<1>5. FileWithinMetrics'
  BY <1>1, <1>2, <1>3 DEF FileInv, FileWithinMetrics
<1>6. QED
  BY <1>4, <1>5

\* The steps before Stop comes to the file, and those after it: a copy starts empty,
\* after the metrics were noted.
LEMMA StepCopies ==
  ASSUME TypeOK, FileInv, NEW c \in Closers,
         \/ Close(c) \/ HostClose(c) \/ StopSend(c) \/ StopOpenFails(c)
         \/ \E k \in Counters : StopCopy(c, k)
  PROVE  FileInv'
<1> USE DEF stopVars, loopVars, traceVars, Copied
<1>1. ASSUME Close(c) \/ HostClose(c) \/ StopOpenFails(c)
      PROVE  FileInv'
  <2>1. /\ UNCHANGED <<file, copied, before, metrics>>
        /\ \/ stop[c] = "idle" /\ stop'[c] \in {"stopping", "untraced"}
           \/ stop[c] \in {"untraced", "stopped", "failed"} /\ stop'[c] = "returned"
           \/ stop[c] = "copying" /\ stop'[c] = "failed"
        /\ \A d \in Closers \ {c} : stop'[d] = stop[d]
    BY <1>1 DEF Close, HostClose, StopOpenFails, TypeOK
  <2>2. CopiesWithin'
    BY <2>1 DEF FileInv, CopiesWithin
  <2>3. BeforeKept'
    BY <2>1 DEF FileInv, BeforeKept
  <2>4. FileByStopped' /\ FileWithinMetrics'
    BY <2>1, FileKept DEF Early
  <2>5. QED
    BY <2>2, <2>3, <2>4 DEF FileInv
<1>2. ASSUME StopSend(c)
      PROVE  FileInv'
  <2>1. /\ UNCHANGED <<file, copied, metrics>>
        /\ stop[c] = "stopping" /\ stop'[c] = "copying" /\ before'[c] = metrics
        /\ \A d \in Closers \ {c} : stop'[d] = stop[d] /\ before'[d] = before[d]
    BY <1>2 DEF StopSend, TypeOK
  <2>2. copied[c] = <<>> /\ metrics \in [Counters -> Nat]
    BY <2>1 DEF FileInv, CopiesWithin, TypeOK
  <2>3. CopiesWithin'
    BY <2>1, <2>2 DEF FileInv, CopiesWithin
  <2>4. BeforeKept'
    BY <2>1, <2>2 DEF FileInv, BeforeKept
  <2>5. FileByStopped' /\ FileWithinMetrics'
    BY <2>1, FileKept DEF Early
  <2>6. QED
    BY <2>3, <2>4, <2>5 DEF FileInv
<1>3. ASSUME NEW k \in Counters, StopCopy(c, k)
      PROVE  FileInv'
  <2>1. /\ UNCHANGED <<file, stop, before, metrics>> /\ stop[c] = "copying"
        /\ k \notin DOMAIN copied[c]
        /\ copied'[c] = [x \in DOMAIN copied[c] \cup {k} |->
                           IF x = k THEN metrics[k] ELSE copied[c][x]]
        /\ \A d \in Closers \ {c} : copied'[d] = copied[d]
    BY <1>3 DEF StopCopy, Copying, TypeOK
  <2>2. metrics[k] \in Nat
    BY DEF TypeOK
  <2>3. CopiesWithin'
    <3>1. ASSUME NEW x \in Counters
          PROVE  /\ before[c][x] <= metrics[x]
                 /\ x \in DOMAIN copied'[c] =>
                      before[c][x] <= copied'[c][x] /\ copied'[c][x] <= metrics[x]
      BY <2>1, <2>2 DEF FileInv, CopiesWithin
    <3>2. QED
      BY <2>1, <3>1 DEF FileInv, CopiesWithin
  <2>4. BeforeKept'
    BY <2>1 DEF FileInv, BeforeKept
  <2>5. FileByStopped' /\ FileWithinMetrics'
    BY <2>1, FileKept DEF Early
  <2>6. QED
    BY <2>3, <2>4, <2>5 DEF FileInv
<1>4. QED
  BY <1>1, <1>2, <1>3

\* The steps at the file: what is written whole is the copy of whoever writes it, and
\* a call that is alone with the file finds it as it has left it.
LEMMA StepWrites ==
  ASSUME TypeOK, FileInv, NEW c \in Closers,
         StopOpen(c) \/ StopWrite(c) \/ StopWriteFails(c)
  PROVE  FileInv'
<1> USE DEF stopVars, loopVars, traceVars, Copied
<1>1. /\ UNCHANGED <<copied, before, metrics>>
      /\ \A d \in Closers \ {c} : stop'[d] = stop[d]
      /\ stop[c] \in {"copying", "writing"} /\ stop'[c] \in {"writing", "stopped", "failed"}
      /\ stop'[c] = "writing" => DOMAIN copied[c] = Counters
  BY DEF StopOpen, StopWrite, StopWriteFails, TypeOK
<1>2. /\ \A d \in Closers : Alone(d)' => Alone(d)
      /\ \A d \in Closers \ {c} : ~Alone(d)'
  BY <1>1, NobodyBecomesAlone DEF Early
<1>3. CopiesWithin'
  BY <1>1 DEF FileInv, CopiesWithin
<1>4. before[c] \in [Counters -> Nat]
  BY <1>1 DEF FileInv, BeforeKept
<1>5. \A d \in Closers : Written(d)' = Written(d)
  BY <1>1 DEF Written
<1>6. CASE StopOpen(c)
  <2>1. file' = EmptyFile /\ stop'[c] = "writing"
    BY <1>6 DEF StopOpen, TypeOK
  <2>2. BeforeKept' /\ FileByStopped' /\ FileWithinMetrics'
    BY <1>1, <1>2, <1>4, <2>1
       DEF FileInv, BeforeKept, FileByStopped, FileWithinMetrics, NotWhole
  <2>3. QED
    BY <1>3, <2>2 DEF FileInv
<1>7. CASE StopWrite(c) \/ StopWriteFails(c)
  <2>1. /\ stop[c] = "writing" /\ stop'[c] \in {"stopped", "failed"}
        /\ DOMAIN copied[c] = Counters
        /\ file' = Written(c) \/ file' = file \/ file' = BrokenFile
        /\ stop'[c] = "stopped" /\ Alone(c) => file' = Written(c)
    BY <1>7 DEF StopWrite, StopWriteFails, TypeOK, FileInv, CopiesWithin, FileByStopped
  <2>2. /\ Written(c).by = c /\ Written(c).metrics = copied[c]
        /\ \A k \in Counters : before[c][k] <= copied[c][k] /\ copied[c][k] <= metrics[k]
    BY <2>1 DEF Written, FileInv, CopiesWithin
  <2>3. file' \notin NotWhole =>
            \/ file' = Written(c)
            \/ /\ file' = file /\ file \notin NotWhole /\ file.by \in Closers \ {c}
               /\ before[file.by] \in [Counters -> Nat]
               /\ stop[file.by] \in {"stopped", "failed", "returned"}
               /\ \A k \in Counters :
                    before[file.by][k] <= file.metrics[k] /\ file.metrics[k] <= metrics[k]
    BY <2>1 DEF FileInv, FileByStopped, BeforeKept, FileWithinMetrics, NotWhole, TypeOK
  <2>4. BeforeKept'
    BY <1>1, <1>4, <2>2, <2>3 DEF FileInv, BeforeKept
  <2>5. FileByStopped'
    BY <1>1, <1>2, <2>1, <2>2, <2>3 DEF FileByStopped
  <2>6. FileWithinMetrics'
    BY <1>1, <1>2, <1>5, <2>1, <2>2, <2>3 DEF FileWithinMetrics
  <2>7. QED
    BY <1>3, <2>4, <2>5, <2>6 DEF FileInv
<1>8. QED
  BY <1>6, <1>7

\* All steps of Close and Stop.
LEMMA StepStop ==
  ASSUME TypeOK, FileInv, NEW c \in Closers,
         Close(c) \/ Stop(c) \/ HostClose(c)
  PROVE  FileInv'
BY StepCopies, StepWrites DEF Stop

\* No step takes the file out of the metrics.
LEMMA StepFile == TypeOK /\ FileInv /\ [Next]_vars => FileInv'
<1> SUFFICES ASSUME TypeOK, FileInv, [Next]_vars PROVE FileInv'
  OBVIOUS
<1>1. metrics \in [Counters -> Nat] /\ \A k \in Counters : metrics[k] <= metrics[k]
  BY DEF TypeOK
<1>2. ASSUME UNCHANGED <<metrics, stopVars>>
      PROVE  FileInv'
  BY <1>1, <1>2, MetricsGrow
<1>3. ASSUME Update
      PROVE  FileInv'
  <2>1. Head(todo) \in Additions
    BY <1>3, HeadTailProperties DEF Update, TypeOK
  <2>2. \A k \in Counters : metrics'[k] \in Nat /\ metrics[k] <= metrics'[k]
    BY <1>1, <1>3, <2>1, AdditionsOf DEF Update
  <2>3. QED
    BY <1>3, <2>2, MetricsGrow DEF Update
<1>4. ASSUME TakeDone
      PROVE  FileInv'
  BY <1>4 DEF TakeDone, traceVars, FileInv, CopiesWithin, BeforeKept, FileByStopped,
              FileWithinMetrics, Copied, Alone, Written
<1>5. ASSUME \/ CreateHost \/ NewTestTracer \/ NewGossipSub \/ Abandon
             \/ \E g \in Goroutines : TraceEnd(g) \/ \E evt \in Events : TraceBegin(g, evt)
             \/ TakeEvent \/ Terminated \/ UNCHANGED vars
      PROVE  UNCHANGED <<metrics, stopVars>>
  BY <1>5 DEF CreateHost, NewTestTracer, NewGossipSub, Abandon, TraceEnd, TraceSend, TraceBegin,
              Trace, TakeEvent, Terminated, vars, tracerVars, loopVars
<1>6. QED
  BY <1>2, <1>3, <1>4, <1>5, StepStop DEF Next, EventLoop, LoopDone

-----------------------------------------------------------------------------
(* The filtered file *)

\* The counted types that the filtered file lists and that occur.
Both == {y \in whitelist \cap DOMAIN Counter : <<Counter[y]>> \in Counters}

\* The events of a type, and what one of them adds.
OfType(y) == {evt \in Events : evt.type = y}
OneMore(y) == {Add(<<Counter[y]>>, 1)}

\* The three counts of events that are on their way, as places.
LEMMA Counts ==
  ASSUME NEW y \in Both
  PROVE  /\ \A s \in Seq(Events) : {n \in DOMAIN s : s[n].type = y} = Places(s, OfType(y))
         /\ \A s \in Seq(Additions) :
                {n \in DOMAIN s : s[n] = Add(<<Counter[y]>>, 1)} = Places(s, OneMore(y))
         /\ TypeOK => InTrace(y) \in Nat /\ InChannel(y) \in Nat /\ InLoop(y) \in Nat
<1>1. ASSUME NEW s \in Seq(Events)
      PROVE  {n \in DOMAIN s : s[n].type = y} = Places(s, OfType(y))
  BY DEF Places, OfType
<1>2. ASSUME NEW s \in Seq(Additions)
      PROVE  {n \in DOMAIN s : s[n] = Add(<<Counter[y]>>, 1)} = Places(s, OneMore(y))
  BY DEF Places, OneMore
<1>3. ASSUME TypeOK
      PROVE  InTrace(y) \in Nat /\ InChannel(y) \in Nat /\ InLoop(y) \in Nat
  <2>1. InChannel(y) \in Nat
    BY <1>1, <1>3, PlacesFinite DEF InChannel, TypeOK
  <2>2. InLoop(y) \in Nat
    BY <1>2, <1>3, PlacesFinite DEF InLoop, TypeOK
  <2>3. IsFiniteSet({g \in Goroutines : tracing[g].type = y})
    BY TracerAssumption, FS_Subset
  <2>4. InTrace(y) \in Nat
    BY <2>3, FS_CardinalityType DEF InTrace
  <2>5. QED
    BY <2>1, <2>2, <2>4
<1>4. QED
  BY <1>1, <1>2, <1>3

\* What an event of another type adds is not an addition of type y.
LEMMA UpdateCounts ==
  ASSUME NEW y \in Both, NEW evt \in Events
  PROVE  Cardinality(Places(Updates(evt), OneMore(y))) = IF evt.type = y THEN 1 ELSE 0
<1>1. CASE evt.type = y
  <2>1. Places(Updates(evt), OneMore(y)) = {1}
    BY <1>1, UpdatesOf DEF Places, OneMore, Both
  <2>2. QED
    BY <1>1, <2>1, FS_Singleton
<1>2. CASE evt.type # y
  <2>1. Places(Updates(evt), OneMore(y)) = {}
    <3>1. ASSUME NEW k \in DOMAIN Updates(evt), Updates(evt)[k] = Add(<<Counter[y]>>, 1)
          PROVE  FALSE
      <4>1. Updates(evt)[k].counter = <<Counter[y]>>
        BY <3>1 DEF Add
      <4>2. CASE evt.type \in DOMAIN Counter
        <5>1. Updates(evt)[k].counter = <<Counter[evt.type]>>
          BY <3>1, <4>2, UpdatesOf DEF Add
        <5>2. Counter[evt.type] = Counter[y]
          BY <4>1, <5>1
        <5>3. QED
          BY <1>2, <4>2, <5>2, CountersDiffer DEF Both
      <4>3. CASE evt.type \in DOMAIN RPCStats
        <5>1. PICK a, b : Updates(evt)[k].counter = <<a, b>>
          BY <4>3, UpdatesOf
        <5>2. Len(<<a, b>>) = 2 /\ Len(<<Counter[y]>>) = 1
          OBVIOUS
        <5>3. QED
          BY <4>1, <5>1, <5>2
      <4>4. CASE evt.type \in {"GRAFT", "PRUNE"}
        <5>1. Updates(evt) = <<>>
          BY <4>4, UpdatesOf
        <5>2. QED
          BY <5>1
      <4>5. QED
        BY <4>2, <4>3, <4>4, TracerAssumption DEF Types
    <3>2. QED
      BY <3>1 DEF Places, OneMore
  <2>2. QED
    BY <1>2, <2>1, FS_EmptySet
<1>3. QED
  BY <1>1, <1>2

\* A call of Trace begins, or ends, for one goroutine.
LEMMA TraceCounts ==
  ASSUME TypeOK, NEW y \in Both, NEW g \in Goroutines, NEW x \in Events \cup {NoEvent},
         tracing' = [tracing EXCEPT ![g] = x]
  PROVE  InTrace(y)' = InTrace(y) - (IF tracing[g].type = y THEN 1 ELSE 0)
                                  + (IF x.type = y THEN 1 ELSE 0)
<1> DEFINE S == {h \in Goroutines : tracing[h].type = y}
           T == {h \in Goroutines : tracing'[h].type = y}
<1>1. IsFiniteSet(S) /\ Cardinality(S) \in Nat
  BY TracerAssumption, FS_Subset, FS_CardinalityType
<1>2. T = IF x.type = y THEN S \cup {g} ELSE S \ {g}
  BY DEF TypeOK
<1>3. g \in S <=> tracing[g].type = y
  OBVIOUS
<1>4. InTrace(y) = Cardinality(S) /\ InTrace(y)' = Cardinality(T)
  BY DEF InTrace
<1> HIDE DEF S, T
<1>5. /\ Cardinality(S \cup {g}) = IF g \in S THEN Cardinality(S) ELSE Cardinality(S) + 1
      /\ Cardinality(S \ {g}) = IF g \in S THEN Cardinality(S) - 1 ELSE Cardinality(S)
  BY <1>1, FS_AddElement, FS_RemoveElement
<1>6. QED
  BY <1>1, <1>2, <1>3, <1>4, <1>5

\* The account of the events of type y.
Balanced(y) ==
    filtered[y] = metrics[<<Counter[y]>>] + InTrace(y) + InChannel(y) + InLoop(y) + dropped[y]

\* The tracer's steps move an event from one place to the next.
LEMMA StepBalance ==
  ASSUME TypeOK, TypeOK', NEW y \in Both, Balanced(y),
         \/ \E g \in Goroutines : TraceSend(g) \/ \E evt \in Events : Trace(g, evt)
         \/ TakeEvent \/ Update
  PROVE  Balanced(y)'
<1> USE DEF traceVars, loopVars, stopVars
<1>1. /\ y \in Types /\ y \in DOMAIN Counter /\ y \in whitelist /\ y # "none"
      /\ <<Counter[y]>> \in Counters
  BY DEF Both, Types, whitelist
<1>2. /\ filtered[y] \in Nat /\ dropped[y] \in Nat /\ metrics[<<Counter[y]>>] \in Nat
      /\ InTrace(y) \in Nat /\ InChannel(y) \in Nat /\ InLoop(y) \in Nat
  BY <1>1, Counts DEF TypeOK
<1>3. /\ InChannel(y) = Cardinality(Places(eventCh, OfType(y)))
      /\ InChannel(y)' = Cardinality(Places(eventCh', OfType(y)))
  BY Counts DEF TypeOK, InChannel
<1>4. /\ InLoop(y) = Cardinality(Places(todo, OneMore(y)))
      /\ InLoop(y)' = Cardinality(Places(todo', OneMore(y)))
  BY Counts DEF TypeOK, InLoop
<1>5. NoEvent.type # y
  BY <1>1 DEF NoEvent
<1>6. ASSUME NEW g \in Goroutines, NEW evt \in Events, Trace(g, evt)
      PROVE  Balanced(y)'
  <2>1. InTrace(y)' = InTrace(y) + IF evt.type = y THEN 1 ELSE 0
    <3>1. tracing' = [tracing EXCEPT ![g] = evt] /\ tracing[g].type # y
      BY <1>5, <1>6 DEF Trace
    <3>2. InTrace(y)' = InTrace(y) - (IF tracing[g].type = y THEN 1 ELSE 0)
                                  + (IF evt.type = y THEN 1 ELSE 0)
      BY <3>1, TraceCounts, Zenon
    <3>3. QED
      BY <1>2, <3>1, <3>2
  <2>2. filtered'[y] = filtered[y] + IF evt.type = y THEN 1 ELSE 0
    BY <1>1, <1>2, <1>6 DEF Trace, Filter, TypeOK
  <2>3. InChannel(y)' = InChannel(y) /\ InLoop(y)' = InLoop(y)
    BY <1>6 DEF Trace, InChannel, InLoop
  <2>4. metrics' = metrics /\ dropped' = dropped
    BY <1>6 DEF Trace
  <2>5. QED
    BY <1>2, <2>1, <2>2, <2>3, <2>4 DEF Balanced
<1>7. ASSUME NEW g \in Goroutines, TraceSend(g)
      PROVE  Balanced(y)'
  <2>1. /\ tracing[g] \in Events /\ tracing' = [tracing EXCEPT ![g] = NoEvent]
        /\ UNCHANGED <<filtered, metrics, todo>>
    BY <1>7 DEF TraceSend, TypeOK
  <2>2. InTrace(y)' = InTrace(y) - IF tracing[g].type = y THEN 1 ELSE 0
    <3>1. InTrace(y)' = InTrace(y) - (IF tracing[g].type = y THEN 1 ELSE 0)
                                  + (IF NoEvent.type = y THEN 1 ELSE 0)
      BY <2>1, TraceCounts, Zenon
    <3>2. QED
      BY <1>2, <1>5, <3>1
  <2>3. InLoop(y)' = InLoop(y)
    BY <2>1 DEF InLoop
  <2>4. CASE eventCh' = Append(eventCh, tracing[g]) /\ UNCHANGED dropped
    <3>1. Cardinality(Places(eventCh', OfType(y))) =
            Cardinality(Places(eventCh, OfType(y))) + IF tracing[g] \in OfType(y) THEN 1 ELSE 0
      BY <2>1, <2>4, AppendCounts DEF TypeOK
    <3>2. tracing[g] \in OfType(y) <=> tracing[g].type = y
      BY <2>1 DEF OfType
    <3>3. InChannel(y)' = InChannel(y) + IF tracing[g].type = y THEN 1 ELSE 0
      BY <1>3, <3>1, <3>2
    <3>4. filtered'[y] = filtered[y] /\ metrics' = metrics /\ dropped'[y] = dropped[y]
      BY <2>1, <2>4
    <3>5. QED
      BY <1>2, <2>2, <2>3, <3>3, <3>4 DEF Balanced
  <2>5. CASE /\ dropped' = [dropped EXCEPT ![tracing[g].type] = @ + 1]
             /\ UNCHANGED eventCh
    <3>1. dropped'[y] = dropped[y] + IF tracing[g].type = y THEN 1 ELSE 0
      BY <1>1, <1>2, <2>5 DEF TypeOK
    <3>2. InChannel(y)' = InChannel(y)
      BY <2>5 DEF InChannel
    <3>3. filtered'[y] = filtered[y] /\ metrics' = metrics
      BY <2>1
    <3>4. QED
      BY <1>2, <2>2, <2>3, <3>1, <3>2, <3>3 DEF Balanced
  <2>6. QED
    BY <1>7, <2>4, <2>5 DEF TraceSend, Offer
<1>8. ASSUME TakeEvent
      PROVE  Balanced(y)'
  <2> DEFINE evt == Head(eventCh)
  <2>1. /\ evt \in Events /\ eventCh # <<>> /\ eventCh \in Seq(Events) /\ todo = <<>>
        /\ eventCh' = Tail(eventCh) /\ todo' = Updates(evt)
        /\ UNCHANGED <<filtered, metrics, tracing, dropped>>
    BY <1>8, HeadTailProperties DEF TakeEvent, Selecting, TypeOK
  <2> HIDE DEF evt
  <2>2. InChannel(y)' = InChannel(y) - IF evt.type = y THEN 1 ELSE 0
    <3>1. Cardinality(Places(Tail(eventCh), OfType(y))) =
            Cardinality(Places(eventCh, OfType(y))) - IF evt \in OfType(y) THEN 1 ELSE 0
      BY <2>1, TailCounts DEF evt
    <3>2. evt \in OfType(y) <=> evt.type = y
      BY <2>1 DEF OfType
    <3>3. QED
      BY <1>3, <2>1, <3>1, <3>2
  <2>3. InLoop(y) = 0
    <3>1. Places(todo, OneMore(y)) = {}
      BY <2>1 DEF Places
    <3>2. QED
      BY <1>4, <3>1, FS_EmptySet
  <2>4. InLoop(y)' = IF evt.type = y THEN 1 ELSE 0
    BY <1>4, <2>1, UpdateCounts
  <2>5. InTrace(y)' = InTrace(y)
    BY <2>1 DEF InTrace
  <2>6. QED
    BY <1>2, <2>1, <2>2, <2>3, <2>4, <2>5 DEF Balanced
<1>9. ASSUME Update
      PROVE  Balanced(y)'
  <2> DEFINE u == Head(todo)
  <2>1. /\ u \in Additions /\ todo # <<>> /\ todo \in Seq(Additions) /\ todo' = Tail(todo)
        /\ UNCHANGED <<filtered, tracing, eventCh, dropped>>
    BY <1>9, HeadTailProperties DEF Update, TypeOK
  <2>2. metrics'[<<Counter[y]>>] =
           IF <<Counter[y]>> = u.counter THEN metrics[<<Counter[y]>>] + u.by
           ELSE metrics[<<Counter[y]>>]
    BY <1>1, <1>9 DEF Update
  <2> HIDE DEF u
  <2>3. InLoop(y)' = InLoop(y) - IF u \in OneMore(y) THEN 1 ELSE 0
    <3>1. Cardinality(Places(Tail(todo), OneMore(y))) =
            Cardinality(Places(todo, OneMore(y))) - IF u \in OneMore(y) THEN 1 ELSE 0
      BY <2>1, TailCounts DEF u
    <3>2. QED
      BY <1>4, <2>1, <3>1
  <2>4. /\ u \in OneMore(y) <=> <<Counter[y]>> = u.counter
        /\ u \in OneMore(y) => u.by = 1
    BY <1>1, <2>1, AdditionsOf DEF OneMore, Add
  <2>5. InTrace(y)' = InTrace(y) /\ InChannel(y)' = InChannel(y)
    BY <2>1 DEF InTrace, InChannel
  <2>6. CASE u \in OneMore(y)
    <3>1. /\ metrics'[<<Counter[y]>>] = metrics[<<Counter[y]>>] + 1
          /\ InLoop(y)' = InLoop(y) - 1
      BY <2>2, <2>3, <2>4, <2>6
    <3>2. QED
      BY <1>2, <2>1, <2>5, <3>1 DEF Balanced
  <2>7. CASE u \notin OneMore(y)
    <3>1. /\ metrics'[<<Counter[y]>>] = metrics[<<Counter[y]>>]
          /\ InLoop(y)' = InLoop(y)
      BY <1>2, <2>2, <2>3, <2>4, <2>7
    <3>2. QED
      BY <1>2, <2>1, <2>5, <3>1 DEF Balanced
  <2>8. QED
    BY <2>6, <2>7
<1>10. QED
  BY <1>6, <1>7, <1>8, <1>9

\* No step loses an event, or counts one twice.
LEMMA StepFiltered ==
  TypeOK /\ TypeOK' /\ FilteredAgreesWithMetrics /\ [Next]_vars => FilteredAgreesWithMetrics'
<1>1. FilteredAgreesWithMetrics <=> \A y \in Both : Balanced(y)
  BY DEF FilteredAgreesWithMetrics, Both, Balanced
<1>2. FilteredAgreesWithMetrics' <=> \A y \in Both : Balanced(y)'
  BY DEF FilteredAgreesWithMetrics, Both, Balanced
<1>3. SUFFICES ASSUME TypeOK, TypeOK', [Next]_vars, NEW y \in Both, Balanced(y)
               PROVE  Balanced(y)'
  BY <1>1, <1>2
<1>4. CASE \/ \E g \in Goroutines : TraceSend(g) \/ \E evt \in Events : Trace(g, evt)
           \/ TakeEvent \/ Update
  BY <1>3, <1>4, StepBalance
<1>5. CASE \/ CreateHost \/ NewTestTracer \/ NewGossipSub \/ Abandon
           \/ \E c \in Closers : Close(c) \/ Stop(c) \/ HostClose(c)
           \/ TakeDone \/ Terminated \/ UNCHANGED vars
  <2>1. UNCHANGED <<filtered, metrics, tracing, eventCh, todo, dropped>>
    BY <1>5 DEF CreateHost, NewTestTracer, NewGossipSub, Abandon, Close, Stop, StopSend, StopCopy,
                StopOpen, StopOpenFails, StopWrite, StopWriteFails, HostClose, TakeDone, Terminated,
                vars, tracerVars, traceVars, loopVars
  <2>2. QED
    BY <1>3, <2>1 DEF Balanced, InTrace, InChannel, InLoop
<1>6. QED
  BY <1>3, <1>4, <1>5 DEF Next, TraceBegin, TraceEnd, EventLoop, LoopDone

-----------------------------------------------------------------------------
(* Theorems *)

\* The invariant is inductive, and holds of every state a node reaches.
THEOREM Inductive == Spec => []IInv
<1>1. Init => IInv
  <2>1. SUFFICES ASSUME Init PROVE IInv
    OBVIOUS
  <2>2. LoopAsBuilt /\ CopiesWithin /\ BeforeKept /\ FileByStopped /\ FileWithinMetrics
    BY <2>1 DEF Init, TracerInit, LoopAsBuilt, CopiesWithin, BeforeKept, FileByStopped,
                FileWithinMetrics, Copied, NotWhole
  <2>3. ASSUME NEW y \in Both PROVE Balanced(y)
    <3>1. /\ {g \in Goroutines : tracing[g].type = y} = {}
          /\ {n \in DOMAIN eventCh : eventCh[n].type = y} = {}
          /\ {n \in DOMAIN todo : todo[n] = Add(<<Counter[y]>>, 1)} = {}
      BY <2>1 DEF Init, TracerInit, NoEvent, Both, whitelist
    <3>2. InTrace(y) = 0 /\ InChannel(y) = 0 /\ InLoop(y) = 0
      BY <3>1, FS_EmptySet DEF InTrace, InChannel, InLoop
    <3>3. filtered[y] = 0 /\ metrics[<<Counter[y]>>] = 0 /\ dropped[y] = 0
      BY <2>1 DEF Init, TracerInit, Both, Types
    <3>4. QED
      BY <3>2, <3>3 DEF Balanced
  <2>4. FilteredAgreesWithMetrics
    BY <2>3 DEF FilteredAgreesWithMetrics, Both, Balanced
  <2>5. QED
    BY <2>1, <2>2, <2>4, InitTypes DEF IInv
<1>2. IInv /\ [Next]_vars => IInv'
  BY StepTypes, StepLoop, StepFile, StepFiltered DEF IInv, FileInv
<1>3. QED
  BY <1>1, <1>2, PTL DEF Spec

\* The variables stay within their types.
THEOREM TypeCorrect == Spec => []TypeOK
<1>1. IInv => TypeOK
  BY DEF IInv
<1>2. QED
  BY <1>1, Inductive, PTL

\* Publications and deliveries in the filtered file are counted, on their way, or were
\* dropped, and the loop counts no others; it is not about other types.
THEOREM EventsAccountedFor == Spec => []FilteredAgreesWithMetrics
<1>1. IInv => FilteredAgreesWithMetrics
  BY DEF IInv
<1>2. QED
  BY <1>1, Inductive, PTL

\* A whole aggregate file, copied under the loop's hands, lies between two truths, and
\* a Stop that is alone with its file and returns no error leaves it whole.
THEOREM FileIsWithin == Spec => []FileWithinMetrics
<1>1. IInv => FileWithinMetrics
  BY DEF IInv
<1>2. QED
  BY <1>1, Inductive, PTL

\* Only a router that could not be created leaves a loop that nobody stops.
THEOREM LoopIsOwned == Spec => []LoopHasOwner
<1>1. IInv => LoopHasOwner
  BY DEF IInv, LoopAsBuilt, LoopHasOwner
<1>2. QED
  BY <1>1, Inductive, PTL

===============================================================================
