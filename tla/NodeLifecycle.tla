---------------------------- MODULE NodeLifecycle ----------------------------
(***************************************************************************)
(* NewNode, setupPubsub and Node.Close (plans/topology/node.go, pubsub.go) *)
(* around the node's tracer.  NewNode creates the host, then the tracer if *)
(* TraceOut asks for one, then the router; when a later step fails it      *)
(* closes what n knows of, and n knows the tracer only once the router is  *)
(* there.  Close cancels the node's context, stops the tracer and closes   *)
(* the host, and may be called again: each member of Closers is one call.  *)
(*                                                                         *)
(* setupPubsub does not pass the tracer to the router (pubsub.go:24-30):   *)
(* with the code as it stands Goroutines is empty.  The tracer is modelled *)
(* for any Goroutines, as its interface promises to work for them.         *)
(***************************************************************************)
EXTENDS Tracer

VARIABLES
    TraceOut,       \* cfg.TraceOut is not empty
    newNode,        \* how far NewNode is
    router,         \* the pubsub router: "none", "up", "failed"
    nodeTracer,     \* n.tracer is set
    cancelled,      \* n.ctx is done
    hostUp          \* the libp2p host is open

nodeVars == <<TraceOut, newNode, router, nodeTracer, cancelled, hostUp>>
vars == <<tracerVars, nodeVars>>

Init ==
    /\ TracerInit
    /\ TraceOut \in BOOLEAN
    /\ newNode = "host"
    /\ router = "none"
    /\ nodeTracer = FALSE
    /\ cancelled = FALSE
    /\ hostUp = FALSE

-----------------------------------------------------------------------------
(* NewNode *)

\* libp2p.New; without a host there is nothing to close.
CreateHost ==
    /\ newNode = "host"
    /\ \/ newNode' = "tracer" /\ hostUp' = TRUE
       \/ newNode' = "failed" /\ UNCHANGED hostUp
    /\ UNCHANGED <<TraceOut, router, nodeTracer, cancelled, tracerVars>>

\* NewTestTracer starts the loop, unless its file cannot be opened.
NewTestTracer ==
    /\ newNode = "tracer"
    /\ \/ TraceOut /\ loop' = "running" /\ newNode' = "router"
       \/ TraceOut /\ UNCHANGED loop /\ newNode' = "abandon"
       \/ ~TraceOut /\ UNCHANGED loop /\ newNode' = "router"
    /\ UNCHANGED <<todo, metrics, traceVars, stopVars, TraceOut, router, nodeTracer,
                   cancelled, hostUp>>

\* Faulty variant: the tracer is not stored in the node.
Forgotten == FALSE

Stored == TraceOut

\* pubsub.NewGossipSub: n.tracer is set, or the tracer is lost with its variable.
NewGossipSub ==
    /\ newNode = "router"
    /\ \/ router' = "up" /\ nodeTracer' = Stored /\ newNode' = "returned"
       \/ router' = "failed" /\ UNCHANGED nodeTracer /\ newNode' = "abandon"
    /\ UNCHANGED <<TraceOut, cancelled, hostUp, tracerVars>>

\* NewNode calls Close, which finds no tracer, and returns an error.
Abandon ==
    /\ newNode = "abandon"
    /\ newNode' = "failed"
    /\ cancelled' = TRUE
    /\ hostUp' = FALSE
    /\ UNCHANGED <<TraceOut, router, nodeTracer, tracerVars>>

-----------------------------------------------------------------------------
(* Close *)

Close(c) ==
    /\ newNode = "returned"
    /\ stop[c] = "idle"
    /\ cancelled' = TRUE
    /\ stop' = [stop EXCEPT ![c] = IF nodeTracer THEN "stopping" ELSE "untraced"]
    /\ UNCHANGED <<TraceOut, newNode, router, nodeTracer, hostUp, doneCh, file, copied, before,
                   traceVars, loopVars>>

Stop(c) ==
    /\ \/ StopSend(c) \/ \E k \in Counters : StopCopy(c, k)
       \/ StopOpen(c) \/ StopOpenFails(c) \/ StopWrite(c) \/ StopWriteFails(c)
    /\ UNCHANGED nodeVars

\* An error of Stop is only logged.
HostClose(c) ==
    /\ stop[c] \in {"untraced", "stopped", "failed"}
    /\ hostUp' = FALSE
    /\ stop' = [stop EXCEPT ![c] = "returned"]
    /\ UNCHANGED <<TraceOut, newNode, router, nodeTracer, cancelled, doneCh, file, copied, before,
                   traceVars, loopVars>>

EventLoop == (TakeEvent \/ Update) /\ UNCHANGED nodeVars

LoopDone == TakeDone /\ UNCHANGED nodeVars

TraceBegin(g, evt) == router = "up" /\ Trace(g, evt) /\ UNCHANGED nodeVars

TraceEnd(g) == TraceSend(g) /\ UNCHANGED nodeVars

\* NewNode failed, or the node was closed as often as it ever is; a loop that
\* nobody can stop waits for ever.
Terminated ==
    /\ newNode = "failed" \/ \A c \in Closers : stop[c] = "returned"
    /\ todo = <<>> /\ (loop = "running" => eventCh = <<>> /\ doneCh = 0)
    /\ UNCHANGED vars

Next ==
    \/ CreateHost \/ NewTestTracer \/ NewGossipSub \/ Abandon
    \/ \E c \in Closers : Close(c) \/ Stop(c) \/ HostClose(c)
    \/ \E g \in Goroutines : TraceEnd(g) \/ \E evt \in Events : TraceBegin(g, evt)
    \/ EventLoop \/ LoopDone
    \/ Terminated

Spec == Init /\ [][Next]_vars

\* Goroutines keep running, and a select between two ready channels, which
\* chooses at random, does not choose the same one for ever.  Nothing makes
\* anybody call Close or Trace.
FairSpec ==
    /\ Spec
    /\ WF_vars(EventLoop)
    /\ SF_vars(LoopDone)
    /\ \A c \in Closers : WF_vars(Stop(c)) /\ WF_vars(HostClose(c))
    /\ \A g \in Goroutines : WF_vars(TraceEnd(g))

-----------------------------------------------------------------------------
(* Properties *)

\* What Stop may have copied of the metrics.
IsCopy(x) == x \in [DOMAIN x -> Nat] /\ DOMAIN x \subseteq Counters

TypeOK ==
    /\ loop \in {"none", "running", "ended"}
    /\ todo \in Seq(Additions)
    /\ eventCh \in Seq(Events) /\ Len(eventCh) <= Capacity
    /\ doneCh \in 0 .. 1
    /\ metrics \in [Counters -> Nat]
    /\ tracing \in [Goroutines -> Events \cup {NoEvent}]
    /\ filtered \in [Types -> Nat] /\ dropped \in [Types -> Nat]
    /\ file \in NotWhole \cup [by : Closers, metrics : [Counters -> Nat]]
    /\ stop \in [Closers ->
            {"idle", "untraced", "stopping", "copying", "writing", "stopped", "failed", "returned"}]
    /\ DOMAIN copied = Closers /\ \A c \in Closers : IsCopy(copied[c])
    /\ before \in [Closers -> {<<>>} \cup [Counters -> Nat]]
    /\ traced \in 0 .. MaxEvents
    /\ newNode \in {"host", "tracer", "router", "abandon", "returned", "failed"}
    /\ router \in {"none", "up", "failed"}
    /\ {TraceOut, nodeTracer, cancelled, hostUp} \subseteq BOOLEAN

\* Events of type y that are in a call of Trace, that wait in the channel, and
\* that the loop has taken and not counted yet.
InTrace(y) == Cardinality({g \in Goroutines : tracing[g].type = y})
InChannel(y) == Cardinality({n \in DOMAIN eventCh : eventCh[n].type = y})
InLoop(y) == Cardinality({n \in DOMAIN todo : todo[n] = Add(<<Counter[y]>>, 1)})

\* Of the types that are both in the filtered file and counted, publications and
\* deliveries, file and metrics say the same: what is in the file is counted, on its
\* way, or was dropped, and the loop counts no others as such.  Nothing is said of types
\* that are only in the file (GRAFT, PRUNE) or only counted.
FilteredAgreesWithMetrics ==
    \A y \in whitelist \cap DOMAIN Counter :
        <<Counter[y]>> \in Counters =>
            filtered[y] = metrics[<<Counter[y]>>] + InTrace(y) + InChannel(y) + InLoop(y)
                          + dropped[y]

\* A whole aggregate file, although copied while the loop is running, lacks nothing
\* that was counted when Stop began, and claims nothing that is not counted.  It is
\* whole, and its own, for a Stop that returns no error and whose file no other call
\* has come to: an error, which Close only logs, or two calls can leave it empty, short
\* or mixed.
Alone(c) == \A d \in Closers \ {c} : stop[d] \in {"idle", "stopping", "copying"}
FileWithinMetrics ==
    /\ file \notin NotWhole =>
        \A k \in Counters :
            before[file.by][k] <= file.metrics[k] /\ file.metrics[k] <= metrics[k]
    /\ \A c \in Closers : stop[c] = "stopped" /\ Alone(c) => file = Written(c)

\* A loop that NewNode leaves running is one that Close will stop; only a router
\* that could not be created leaves another one behind.
LoopHasOwner ==
    loop = "running" /\ newNode \in {"returned", "failed"} => nodeTracer \/ router = "failed"

\* The inductive invariant behind these properties.

\* Who may know of the loop, while NewNode is on its way and after.
LoopAsBuilt ==
    /\ newNode \in {"host", "tracer"} => loop = "none"
    /\ newNode = "router" /\ loop = "running" => TraceOut
    /\ newNode \in {"abandon", "failed"} /\ loop = "running" => router = "failed"
    /\ newNode = "returned" /\ loop = "running" => nodeTracer

\* Where Stop has sent to doneCh, and its copy is not given up.
Copied(c) == stop[c] \in {"copying", "writing"}

\* What Stop has copied lies between the metrics when it began and those of now.
CopiesWithin ==
    \A c \in Closers :
        /\ stop[c] \in {"idle", "stopping"} => copied[c] = <<>>
        /\ stop[c] = "writing" => DOMAIN copied[c] = Counters
        /\ Copied(c) => \A k \in Counters :
            /\ before[c][k] <= metrics[k]
            /\ k \in DOMAIN copied[c] =>
                before[c][k] <= copied[c][k] /\ copied[c][k] <= metrics[k]

\* A history variable that a later step needs has been written.
BeforeKept ==
    \A c \in Closers :
        Copied(c) \/ (file \notin NotWhole /\ file.by = c) => before[c] \in [Counters -> Nat]

\* A whole file is by a call that has written; one that is still to write, and alone
\* with the file, has it empty.
FileByStopped ==
    /\ file \notin NotWhole => stop[file.by] \in {"stopped", "failed", "returned"}
    /\ \A c \in Closers : stop[c] = "writing" /\ Alone(c) => file = EmptyFile

IInv ==
    /\ TypeOK
    /\ LoopAsBuilt
    /\ CopiesWithin
    /\ BeforeKept
    /\ FileByStopped
    /\ FileWithinMetrics
    /\ FilteredAgreesWithMetrics

\* Trace returns whatever has become of the loop: pubsub's own event loop calls it.
TraceReturns == \A g \in Goroutines : tracing[g] # NoEvent ~> tracing[g] = NoEvent

\* Close returns, up to the second call of it.
CloseReturns == \A c \in Closers : stop[c] = "stopping" ~> stop[c] = "returned"

\* The event loop of a node that was closed ends, and stays ended.
ClosedLoopEnds ==
    (\E c \in Closers : stop[c] = "returned") ~> [](loop # "running")

=============================================================================
