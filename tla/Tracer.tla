------------------------------- MODULE Tracer -------------------------------
(***************************************************************************)
(* The tracer of a node (plans/topology/tracer.go).  Trace writes an event *)
(* of a whitelisted type to the filtered file and hands it to the event    *)
(* loop through a bounded channel, or drops it; the loop adds it to the    *)
(* metrics; Stop tells the loop to return and writes the metrics to the    *)
(* aggregate file.  Nothing guards the metrics: the loop updates an RPC's  *)
(* counters one after the other, and Stop copies them one after the other, *)
(* in whatever order, while the loop may still be running.  Nor does       *)
(* anything guard the file, which is truncated first and written after.    *)
(*                                                                         *)
(* This module has the state and the steps; NodeLifecycle puts them into   *)
(* the life of a node.  The callers of Trace are external: TestTracer is   *)
(* an EventTracer, which pubsub calls from any of its goroutines.          *)
(***************************************************************************)
EXTENDS Integers, Sequences, FiniteSets, Functions

CONSTANTS
    Goroutines,     \* callers of Trace
    Closers,        \* callers of Node.Close, and through it of Stop
    Events,         \* events: a type, and what an RPC carries (meta)
    Capacity,       \* of eventCh (1024)
    MaxEvents       \* bound: calls of Trace

RPCFields == <<"RPCs", "Messages", "IHaves", "IWants", "Grafts", "Prunes">>

\* The whitelist that NewTestTracer gives the filtered tracer.
whitelist == {"PUBLISH_MESSAGE", "DELIVER_MESSAGE", "GRAFT", "PRUNE"}

\* The event types that count one thing each ...
Counter ==
    [PUBLISH_MESSAGE |-> "Published", REJECT_MESSAGE |-> "Rejected",
     DUPLICATE_MESSAGE |-> "Duplicates", DELIVER_MESSAGE |-> "Delivered",
     ADD_PEER |-> "PeersAdded", REMOVE_PEER |-> "PeersRemoved", DROP_RPC |-> "DroppedRPC",
     JOIN |-> "TopicsJoined", LEAVE |-> "TopicsLeft"]

\* ... and those that count what an RPC carries.  GRAFT and PRUNE count nothing:
\* they are accounted for in the RPC that carries them.
RPCStats == [RECV_RPC |-> "ReceivedRPC", SEND_RPC |-> "SentRPC"]

Types == DOMAIN Counter \cup DOMAIN RPCStats \cup {"GRAFT", "PRUNE"}

Add(counter, n) == [counter |-> counter, by |-> n]

\* What an RPC adds to one of its counters.
Stat(evt, field) == Add(<<RPCStats[evt.type], field>>, evt.meta[field])

\* Faulty variant: the handlers of RPCs also count the messages as published.
StatsAndMessages(evt) ==
    Append([k \in DOMAIN RPCFields |-> Stat(evt, RPCFields[k])],
           Add(<<"Published">>, evt.meta.Messages))

\* sendRPC and recvRPC.
countRPC(evt) == [k \in DOMAIN RPCFields |-> Stat(evt, RPCFields[k])]

\* What an event adds, one counter after the other.
Updates(evt) ==
    CASE evt.type \in DOMAIN Counter -> <<Add(<<Counter[evt.type]>>, 1)>>
      [] evt.type \in DOMAIN RPCStats -> countRPC(evt)
      [] OTHER -> <<>>

Additions == UNION {Range(Updates(evt)) : evt \in Events}

\* The counters that these events can change; the others stay at zero.
Counters == {u.counter : u \in {v \in Additions : v.by > 0}}

ASSUME TracerAssumption ==
    /\ IsFiniteSet(Events) /\ IsFiniteSet(Goroutines)
    /\ \A evt \in Events :
        /\ evt.type \in Types
        /\ evt.type \in DOMAIN RPCStats => evt.meta \in [Range(RPCFields) -> Nat] /\ evt.meta.RPCs = 1
    /\ Capacity \in Nat \ {0}
    /\ MaxEvents \in Nat

VARIABLES
    loop,           \* eventLoop: "none", "running", "ended"
    todo,           \* additions the loop has yet to make for its event
    eventCh,        \* events waiting for the loop
    doneCh,         \* requests to return waiting for the loop
    metrics,        \* t.metrics, as a function from counters
    tracing,        \* tracing[g]: the event whose Trace call g is in, or NoEvent
    filtered,       \* filtered[type]: events in the filtered file
    file,           \* the aggregate file: who wrote it, and what, if it is whole
    stop,           \* stop[c]: where c's call of Close is
    copied,         \* copied[c]: the part of the metrics that Stop has copied
    traced,         \* history: calls of Trace so far
    dropped,        \* history: dropped[type], events Trace has dropped
    before          \* history: before[c], the metrics when Stop sent to doneCh

traceVars == <<eventCh, tracing, filtered, traced, dropped>>
loopVars == <<loop, todo, metrics>>
stopVars == <<doneCh, file, stop, copied, before>>
tracerVars == <<traceVars, loopVars, stopVars>>

NoEvent == [type |-> "none"]

\* There is no aggregate file; it is empty; it is cut short, or a mixture.
NoFile == [by |-> "nobody"]
EmptyFile == [by |-> "truncated"]
BrokenFile == [by |-> "several"]
NotWhole == {NoFile, EmptyFile, BrokenFile}

TracerInit ==
    /\ loop = "none"
    /\ todo = <<>>
    /\ eventCh = <<>>
    /\ doneCh = 0
    /\ metrics = [k \in Counters |-> 0]
    /\ tracing = [g \in Goroutines |-> NoEvent]
    /\ filtered = [y \in Types |-> 0]
    /\ file = NoFile
    /\ stop = [c \in Closers |-> "idle"]
    /\ copied = [c \in Closers |-> <<>>]
    /\ traced = 0
    /\ dropped = [y \in Types |-> 0]
    /\ before = [c \in Closers |-> <<>>]

-----------------------------------------------------------------------------
(* Trace *)

\* The filtering tracer writes what is whitelisted.
Filter(evt) ==
    filtered' = IF evt.type \in whitelist
                THEN [filtered EXCEPT ![evt.type] = @ + 1] ELSE filtered

\* The filtered file comes first.
Trace(g, evt) ==
    /\ loop # "none"
    /\ traced < MaxEvents
    /\ tracing[g] = NoEvent
    /\ traced' = traced + 1
    /\ tracing' = [tracing EXCEPT ![g] = evt]
    /\ Filter(evt)
    /\ UNCHANGED <<eventCh, dropped, loopVars, stopVars>>

\* Faulty variant: there is no default branch.
Blocking(g) ==
    /\ Len(eventCh) < Capacity
    /\ eventCh' = Append(eventCh, tracing[g])
    /\ UNCHANGED dropped

\* Then the channel, if it has room; Trace never waits for the loop.
Offer(g) ==
    \/ /\ Len(eventCh) < Capacity
       /\ eventCh' = Append(eventCh, tracing[g])
       /\ UNCHANGED dropped
    \/ /\ Len(eventCh) >= Capacity
       /\ dropped' = [dropped EXCEPT ![tracing[g].type] = @ + 1]
       /\ UNCHANGED eventCh

TraceSend(g) ==
    /\ tracing[g] # NoEvent
    /\ Offer(g)
    /\ tracing' = [tracing EXCEPT ![g] = NoEvent]
    /\ UNCHANGED <<filtered, traced, loopVars, stopVars>>

-----------------------------------------------------------------------------
(* The event loop *)

Selecting == loop = "running" /\ todo = <<>>

TakeEvent ==
    /\ Selecting
    /\ eventCh # <<>>
    /\ todo' = Updates(Head(eventCh))
    /\ eventCh' = Tail(eventCh)
    /\ UNCHANGED <<loop, metrics, tracing, filtered, traced, dropped, stopVars>>

Update ==
    /\ todo # <<>>
    /\ metrics' = [k \in Counters |->
            IF k = Head(todo).counter THEN metrics[k] + Head(todo).by ELSE metrics[k]]
    /\ todo' = Tail(todo)
    /\ UNCHANGED <<loop, traceVars, stopVars>>

\* Faulty variant: break instead of return, which only leaves the select.
Break == "running"

Return == "ended"

\* The choice between two ready channels is the runtime's.
TakeDone ==
    /\ Selecting
    /\ doneCh > 0
    /\ doneCh' = doneCh - 1
    /\ loop' = Return
    /\ UNCHANGED <<todo, metrics, traceVars, file, stop, copied, before>>

-----------------------------------------------------------------------------
(* Stop *)

\* Faulty variants: the channel has no buffer, so that the loop must be there;
\* it has room for two requests.
Unbuffered == doneCh = 0 /\ Selecting
RoomForTwo == doneCh < 2

DoneHasRoom == doneCh < 1

StopSend(c) ==
    /\ stop[c] = "stopping"
    /\ DoneHasRoom
    /\ doneCh' = doneCh + 1
    /\ before' = [before EXCEPT ![c] = metrics]
    /\ stop' = [stop EXCEPT ![c] = "copying"]
    /\ UNCHANGED <<file, copied, traceVars, loopVars>>

\* Faulty variant: the metrics are marshalled before the loop is told to return.
CopyingEarly(c) == stop[c] \in {"stopping", "copying"}

Copying(c) == stop[c] = "copying"

\* One counter is copied, without looking at what the loop does.
StopCopy(c, k) ==
    /\ Copying(c)
    /\ k \notin DOMAIN copied[c]
    /\ copied' = [copied EXCEPT ![c] = [x \in DOMAIN @ \cup {k} |-> IF x = k THEN metrics[k] ELSE @[x]]]
    /\ UNCHANGED <<doneCh, file, stop, before, traceVars, loopVars>>

Written(c) == [by |-> c, metrics |-> copied[c]]

\* ioutil.WriteFile truncates the file ...
StopOpen(c) ==
    /\ stop[c] = "copying"
    /\ DOMAIN copied[c] = Counters
    /\ file' = EmptyFile
    /\ stop' = [stop EXCEPT ![c] = "writing"]
    /\ UNCHANGED <<doneCh, copied, before, traceVars, loopVars>>

\* ... unless the copy cannot be marshalled, or the file not opened.
StopOpenFails(c) ==
    /\ stop[c] = "copying"
    /\ DOMAIN copied[c] = Counters
    /\ stop' = [stop EXCEPT ![c] = "failed"]
    /\ UNCHANGED <<doneCh, file, copied, before, traceVars, loopVars>>

\* Another call has written the same there.
SameWritten(c) == file \notin NotWhole /\ file.metrics = copied[c]

\* Then it writes, from the start: the end of something longer stays there.
StopWrite(c) ==
    /\ stop[c] = "writing"
    /\ \/ file' = Written(c)
       \/ file # EmptyFile /\ ~SameWritten(c) /\ file' = BrokenFile
    /\ stop' = [stop EXCEPT ![c] = "stopped"]
    /\ UNCHANGED <<doneCh, copied, before, traceVars, loopVars>>

\* It fails before the first byte, half way or, as closing the file does, at last.
StopWriteFails(c) ==
    /\ stop[c] = "writing"
    /\ \/ file' \in {file, Written(c)}
       \/ ~SameWritten(c) /\ file' = BrokenFile
    /\ stop' = [stop EXCEPT ![c] = "failed"]
    /\ UNCHANGED <<doneCh, copied, before, traceVars, loopVars>>

=============================================================================
