----------------------------- MODULE PeerLimiter -----------------------------
(***************************************************************************)
(* The connection limiter of a node: the notifiee that notiffee() builds   *)
(* (plans/topology/node.go), its two callbacks, its gc function, and the   *)
(* goroutine of NewNode that calls gc until the node's context is done.    *)
(*                                                                         *)
(* The callbacks and gc share the counter `connected` and the map          *)
(* `connectedCache` under the mutex `l`.  All three also look at, or act   *)
(* on, the libp2p swarm, which is NOT under that mutex: connections open   *)
(* and close between any two of their steps.  A step that only touches     *)
(* state guarded by `l` is merged with the step that takes or releases it; *)
(* every read or write of the swarm is a step of its own.                  *)
(*                                                                         *)
(* libp2p is external.  What is assumed of its swarm: the callbacks of one *)
(* connection come in the order ConnectedF, DisconnectedF, once each, and  *)
(* DisconnectedF only once the connection left the swarm's table; the      *)
(* callbacks of different connections run in goroutines of their own, in   *)
(* any order; closing a connection does not wait for its DisconnectedF,    *)
(* closing the whole host waits for all of them.                           *)
(***************************************************************************)
EXTENDS Integers, FiniteSets

CONSTANTS
    Peers,          \* remote peer IDs
    Conns,          \* connections; each is opened at most once
    RemotePeer,     \* RemotePeer[c]: the peer at the other end of c
    CfgMaxPeers,    \* NodeConfig.MaxPeers
    Gc,             \* the gc goroutine, as a holder of the mutex
    Nobody          \* the mutex is free

ASSUME LimiterAssumption ==
    /\ RemotePeer \in [Conns -> Peers]
    /\ CfgMaxPeers \in Nat
    /\ Gc \notin Conns
    /\ Nobody \notin Conns \cup {Gc}

VARIABLES
    connected,      \* notiffee's counter
    connectedCache, \* notiffee's map of peers, as the set of its keys
    l,              \* notiffee's mutex: Nobody, Gc or the connection whose
                    \* callback holds it
    toCheck,        \* gc: keys of connectedCache not visited yet
    toRemove,       \* gc: peers found disconnected
    gcPc,           \* the gc goroutine
    closing,        \* ClosePeer's snapshot: connections it has yet to close
    callback,       \* callback[c]: progress of c's two callbacks
    conn,           \* conn[c]: what the swarm's table knows of c (external)
    node            \* progress of Node.Close

swarmVars == <<conn, node>>
gcVars == <<toCheck, toRemove, gcPc>>
vars == <<connected, connectedCache, l, toCheck, toRemove, gcPc, closing,
          callback, conn, node>>

ConnStates == {"idle", "open", "closed"}

\* "none": ConnectedF not called yet; "refusing": inside its ClosePeer;
\* "up": ConnectedF returned; "removing": inside DisconnectedF, the peer was
\* found disconnected; "down": DisconnectedF returned.
CallbackStates == {"none", "refusing", "up", "removing", "down"}

\* "loop": about to test ctx.Err(); "sleeping": in time.Sleep or waiting for
\* the mutex; "checking": inside gc with the mutex held.
GcStates == {"loop", "sleeping", "checking", "exited"}

\* "cancelled": n.cancel() ran; "closing": inside host.Close().
NodeStates == {"running", "cancelled", "closing", "closed"}

\* notiffee replaces a zero limit by its default.
maxPeers == IF CfgMaxPeers = 0 THEN 25 ELSE CfgMaxPeers

Connected(p) == \E c \in Conns : RemotePeer[c] = p /\ conn[c] = "open"

ConnectedPeers == {p \in Peers : Connected(p)}

Init ==
    /\ connected = 0
    /\ connectedCache = {}
    /\ l = Nobody
    /\ toCheck = {}
    /\ toRemove = {}
    /\ gcPc = "loop"
    /\ closing = {}
    /\ callback = [c \in Conns |-> "none"]
    /\ conn = [c \in Conns |-> "idle"]
    /\ node = "running"

-----------------------------------------------------------------------------
(* The swarm *)

\* A connection is dialled or accepted; its ConnectedF becomes due.
Open(c) ==
    /\ conn[c] = "idle"
    /\ node \in {"running", "cancelled"}
    /\ conn' = [conn EXCEPT ![c] = "open"]
    /\ UNCHANGED <<connected, connectedCache, l, gcVars, closing, callback, node>>

\* The connection breaks, or the remote side closes it.
Drop(c) ==
    /\ conn[c] = "open"
    /\ conn' = [conn EXCEPT ![c] = "closed"]
    /\ UNCHANGED <<connected, connectedCache, l, gcVars, closing, callback, node>>

-----------------------------------------------------------------------------
(* ConnectedF *)

ConnectedDue(c) ==
    /\ conn[c] # "idle"
    /\ callback[c] = "none"
    /\ l = Nobody

\* The peer is in the cache already.
ConnectedKnown(c) ==
    /\ ConnectedDue(c)
    /\ RemotePeer[c] \in connectedCache
    /\ callback' = [callback EXCEPT ![c] = "up"]
    /\ UNCHANGED <<connected, connectedCache, l, gcVars, closing, swarmVars>>

\* Faulty variant: the limit is not consulted.
Unlimited == TRUE

Room == ~(connected > maxPeers)

\* A new peer below the limit is counted.
ConnectedAdmit(c) ==
    /\ ConnectedDue(c)
    /\ RemotePeer[c] \notin connectedCache
    /\ Room
    /\ connected' = connected + 1
    /\ connectedCache' = connectedCache \cup {RemotePeer[c]}
    /\ callback' = [callback EXCEPT ![c] = "up"]
    /\ UNCHANGED <<l, gcVars, closing, swarmVars>>

\* Faulty variants: the mutex is released before ClosePeer runs; the peer is
\* left alone, and its connection stays open.
RefuseUnlocked(c) ==
    /\ ConnectedDue(c)
    /\ RemotePeer[c] \notin connectedCache
    /\ ~Room
    /\ closing' = {d \in Conns : RemotePeer[d] = RemotePeer[c] /\ conn[d] = "open"}
    /\ callback' = [callback EXCEPT ![c] = "refusing"]
    /\ UNCHANGED <<connected, connectedCache, l, gcVars, swarmVars>>

RefuseWithoutClosing(c) ==
    /\ ConnectedDue(c)
    /\ RemotePeer[c] \notin connectedCache
    /\ ~Room
    /\ callback' = [callback EXCEPT ![c] = "up"]
    /\ UNCHANGED <<connected, connectedCache, l, gcVars, closing, swarmVars>>

\* A new peer over the limit: ClosePeer, called with the mutex held, takes a
\* snapshot of the peer's connections ...
ConnectedRefuse(c) ==
    /\ ConnectedDue(c)
    /\ RemotePeer[c] \notin connectedCache
    /\ ~Room
    /\ closing' = {d \in Conns : RemotePeer[d] = RemotePeer[c] /\ conn[d] = "open"}
    /\ callback' = [callback EXCEPT ![c] = "refusing"]
    /\ l' = c
    /\ UNCHANGED <<connected, connectedCache, gcVars, swarmVars>>

\* ... closes them one by one ...
RefuseClose(c, d) ==
    /\ callback[c] = "refusing"
    /\ d \in closing
    /\ closing' = closing \ {d}
    /\ conn' = [conn EXCEPT ![d] = "closed"]
    /\ UNCHANGED <<connected, connectedCache, l, gcVars, callback, node>>

\* ... and the callback returns.
RefuseReturn(c) ==
    /\ callback[c] = "refusing"
    /\ closing = {}
    /\ callback' = [callback EXCEPT ![c] = "up"]
    /\ l' = Nobody
    /\ UNCHANGED <<connected, connectedCache, gcVars, closing, swarmVars>>

ConnectedF(c) == ConnectedKnown(c) \/ ConnectedAdmit(c) \/ ConnectedRefuse(c)

-----------------------------------------------------------------------------
(* DisconnectedF *)

DisconnectedDue(c) ==
    /\ conn[c] = "closed"
    /\ callback[c] = "up"
    /\ l = Nobody

\* Another connection to the peer is open: nothing to do.
DisconnectedStillUp(c) ==
    /\ DisconnectedDue(c)
    /\ Connected(RemotePeer[c])
    /\ callback' = [callback EXCEPT ![c] = "down"]
    /\ UNCHANGED <<connected, connectedCache, l, gcVars, closing, swarmVars>>

\* The peer is found disconnected; the mutex stays held ...
DisconnectedGone(c) ==
    /\ DisconnectedDue(c)
    /\ ~Connected(RemotePeer[c])
    /\ callback' = [callback EXCEPT ![c] = "removing"]
    /\ l' = c
    /\ UNCHANGED <<connected, connectedCache, gcVars, closing, swarmVars>>

\* Faulty variants: the entry stays; the slot stays; the slot is given back
\* whether or not there is an entry.
KeepEntry(p) ==
    /\ connected' = IF p \in connectedCache THEN connected - 1 ELSE connected
    /\ UNCHANGED connectedCache
KeepSlot(p) == connectedCache' = connectedCache \ {p} /\ UNCHANGED connected
AlwaysGiveBack(p) == connected' = connected - 1 /\ connectedCache' = connectedCache \ {p}

\* The peer gives its slot back, if it is still in the cache.
GiveBack(p) ==
    /\ connected' = IF p \in connectedCache THEN connected - 1 ELSE connected
    /\ connectedCache' = connectedCache \ {p}

\* ... and removed.
DisconnectedRemove(c) ==
    /\ callback[c] = "removing"
    /\ GiveBack(RemotePeer[c])
    /\ callback' = [callback EXCEPT ![c] = "down"]
    /\ l' = Nobody
    /\ UNCHANGED <<gcVars, closing, swarmVars>>

DisconnectedF(c) == DisconnectedStillUp(c) \/ DisconnectedGone(c)

-----------------------------------------------------------------------------
(* The gc goroutine *)

\* Faulty variant: the goroutine never looks at the context.
Forever == TRUE

Running == node = "running"

\* for ctx.Err() == nil: go to sleep, or leave the loop.
GcLoop ==
    /\ gcPc = "loop"
    /\ gcPc' = IF Running THEN "sleeping" ELSE "exited"
    /\ UNCHANGED <<connected, connectedCache, l, toCheck, toRemove, closing,
                   callback, swarmVars>>

\* Faulty variant: gc does not take the mutex.
GcNoLock == UNCHANGED l

GcLock == l = Nobody /\ l' = Gc

GcStart ==
    /\ gcPc = "sleeping"
    /\ GcLock
    /\ gcPc' = "checking"
    /\ toCheck' = connectedCache
    /\ toRemove' = {}
    /\ UNCHANGED <<connected, connectedCache, closing, callback, swarmVars>>

\* One turn of the first loop: the keys of a Go map come in any order.
GcCheck(p) ==
    /\ gcPc = "checking"
    /\ p \in toCheck
    /\ toCheck' = toCheck \ {p}
    /\ toRemove' = IF Connected(p) THEN toRemove ELSE toRemove \cup {p}
    /\ UNCHANGED <<connected, connectedCache, l, gcPc, closing, callback, swarmVars>>

\* The second loop: the entries go, the counter stays.
GcDelete ==
    /\ gcPc = "checking"
    /\ toCheck = {}
    /\ connectedCache' = connectedCache \ toRemove
    /\ toRemove' = {}
    /\ gcPc' = "loop"
    /\ l' = Nobody
    /\ UNCHANGED <<connected, toCheck, closing, callback, swarmVars>>

-----------------------------------------------------------------------------
(* Node.Close *)

Cancel ==
    /\ node = "running"
    /\ node' = "cancelled"
    /\ UNCHANGED <<connected, connectedCache, l, gcVars, closing, callback, conn>>

\* host.Close() empties the swarm's table ...
HostClose ==
    /\ node = "cancelled"
    /\ node' = "closing"
    /\ conn' = [c \in Conns |-> IF conn[c] = "open" THEN "closed" ELSE conn[c]]
    /\ UNCHANGED <<connected, connectedCache, l, gcVars, closing, callback>>

\* ... and returns when the callbacks of every connection have.
HostClosed ==
    /\ node = "closing"
    /\ \A c \in Conns : conn[c] = "idle" \/ callback[c] = "down"
    /\ node' = "closed"
    /\ UNCHANGED <<connected, connectedCache, l, gcVars, closing, callback, conn>>

\* The node is closed and its goroutines are gone.
Terminated ==
    /\ node = "closed"
    /\ gcPc = "exited"
    /\ UNCHANGED vars

-----------------------------------------------------------------------------

Next ==
    \/ \E c \in Conns :
        \/ Open(c) \/ Drop(c)
        \/ ConnectedKnown(c) \/ ConnectedAdmit(c) \/ ConnectedRefuse(c)
        \/ \E d \in Conns : RefuseClose(c, d)
        \/ RefuseReturn(c)
        \/ DisconnectedStillUp(c) \/ DisconnectedGone(c)
        \/ DisconnectedRemove(c)
    \/ GcLoop \/ GcStart \/ GcDelete
    \/ \E p \in Peers : GcCheck(p)
    \/ Cancel \/ HostClose \/ HostClosed
    \/ Terminated

Spec == Init /\ [][Next]_vars

\* Callbacks and the gc goroutine keep running; sync.RWMutex hands the lock
\* to every waiter in the end (its starvation mode), so taking it is strongly
\* fair.  Nothing makes a connection open or break, or Node.Close be called;
\* once called it goes on.
Fairness ==
    /\ \A c \in Conns :
        /\ SF_vars(ConnectedF(c))
        /\ SF_vars(DisconnectedF(c))
        /\ WF_vars(\E d \in Conns : RefuseClose(c, d))
        /\ WF_vars(RefuseReturn(c))
        /\ WF_vars(DisconnectedRemove(c))
    /\ WF_vars(GcLoop)
    /\ SF_vars(GcStart)
    /\ WF_vars(\E p \in Peers : GcCheck(p))
    /\ WF_vars(GcDelete)
    /\ WF_vars(HostClose)
    /\ WF_vars(HostClosed)

FairSpec == Spec /\ Fairness

-----------------------------------------------------------------------------
(* Properties *)

TypeOK ==
    /\ connected \in Nat
    /\ connectedCache \subseteq Peers
    /\ l \in Conns \cup {Gc, Nobody}
    /\ toCheck \subseteq Peers
    /\ toRemove \subseteq Peers
    /\ gcPc \in GcStates
    /\ closing \subseteq Conns
    /\ callback \in [Conns -> CallbackStates]
    /\ conn \in [Conns -> ConnStates]
    /\ node \in NodeStates

\* The counter never undercounts the cache, and admission stops it at
\* maxPeers + 1: however connections, callbacks and gc interleave, the node
\* tracks at most one peer more than its limit.
CounterBounds ==
    /\ Cardinality(connectedCache) <= connected
    /\ connected <= maxPeers + 1

\* No connection escapes the limiter: an open connection whose ConnectedF has
\* returned belongs to a peer in the cache, so that a later DisconnectedF
\* will give its slot back.  gc and DisconnectedF decide on a look at the
\* swarm that is stale by the time they delete.
NoUntrackedPeer ==
    \A c \in Conns :
        conn[c] = "open" /\ callback[c] = "up" => RemotePeer[c] \in connectedCache

\* No entry is stuck: a cached peer always has a connection whose DisconnectedF
\* is still to return, whatever order the callbacks of its connections ran in.
NoStuckEntry ==
    \A p \in connectedCache :
        \E c \in Conns : RemotePeer[c] = p /\ conn[c] # "idle" /\ callback[c] # "down"

\* ClosePeer only ever closes connections of peers the limiter does not track.
NeverClosesTracked == \A c \in closing : RemotePeer[c] \notin connectedCache

\* Slots counted without an entry in the cache.
LostSlots == connected - Cardinality(connectedCache)

\* A slot is lost only when gc deletes an entry, and is never recovered: the
\* callbacks keep counter and cache in step.
OnlyGcLosesSlots ==
    [][LostSlots' # LostSlots => l = Gc /\ LostSlots' > LostSlots]_vars

\* Every connection that opens is decided: its peer gets tracked, or the
\* connection is closed.
EveryConnectionDecided ==
    \A c \in Conns :
        conn[c] = "open" ~> (RemotePeer[c] \in connectedCache \/ conn[c] = "closed")

\* A tracked peer that is gone for good leaves the cache.
GonePeersForgotten ==
    \A p \in Peers :
        (p \in connectedCache /\ ~Connected(p)) ~> (p \notin connectedCache \/ Connected(p))

\* Node.Close returns and the gc goroutine ends, although host.Close waits for
\* callbacks that wait for the mutex that gc and ClosePeer hold.
CloseReturns == node = "cancelled" ~> (node = "closed" /\ gcPc = "exited")

\* Read as tracked peers and slots in use, the limiter is a PeerBudget: entry
\* and slot change in one step, whatever the callbacks interleave with.
Budget == INSTANCE PeerBudget WITH
    Limit <- maxPeers, tracked <- connectedCache, used <- connected
KeepsBudget == Budget!Spec

-----------------------------------------------------------------------------
(* The inductive invariant behind these properties.                         *)

\* Who holds the mutex, and what only its holder may have in hand.
MutexDiscipline ==
    /\ \A c \in Conns : callback[c] \in {"refusing", "removing"} <=> l = c
    /\ gcPc = "checking" <=> l = Gc
    /\ closing # {} => \E c \in Conns : callback[c] = "refusing"
    /\ toRemove # {} => gcPc = "checking"

\* A callback runs only when the swarm has reached the event it reports.
CallbackOrder ==
    \A c \in Conns :
        /\ callback[c] # "none" => conn[c] # "idle"
        /\ callback[c] \in {"removing", "down"} => conn[c] = "closed"

\* ClosePeer works on the untracked peer of the callback that called it, and
\* does not leave that callback's own connection open.
RefusalInv ==
    \A c \in Conns : callback[c] = "refusing" =>
        /\ RemotePeer[c] \notin connectedCache
        /\ \A d \in closing : RemotePeer[d] = RemotePeer[c]
        /\ conn[c] = "open" => c \in closing

\* A peer found disconnected may be back by the time its entry is deleted, but
\* the ConnectedF of its new connection is still waiting for the mutex.
OnlyUnannounced(p) ==
    \A d \in Conns : RemotePeer[d] = p /\ conn[d] = "open" => callback[d] = "none"

RemovalInv ==
    /\ \A c \in Conns : callback[c] = "removing" => OnlyUnannounced(RemotePeer[c])
    /\ \A p \in toRemove : OnlyUnannounced(p)

IInv ==
    /\ TypeOK
    /\ IsFiniteSet(connectedCache)
    /\ CounterBounds
    /\ MutexDiscipline
    /\ CallbackOrder
    /\ RefusalInv
    /\ RemovalInv
    /\ NoUntrackedPeer
    /\ NoStuckEntry

-----------------------------------------------------------------------------
(* What the plan's manifest says of max_peers: "maximum number of connected *)
(* peers" (plans/topology/manifest.toml:34).                                *)

\* Every callback that is due has returned.
Quiet ==
    /\ l = Nobody
    /\ \A c \in Conns : <<conn[c], callback[c]>> \in
            {<<"idle", "none">>, <<"open", "up">>, <<"closed", "down">>}

\* When everything has settled the cache is exactly the connected peers.
CacheExactWhenQuiet == Quiet => connectedCache = ConnectedPeers

\* When everything has settled no more than max_peers peers are connected.
AtMostMaxPeers == Quiet => Cardinality(ConnectedPeers) <= maxPeers

\* A peer is turned away only by a node whose connected peers use up the limit
\* (a peer whose DisconnectedF is still to return counts as connected).
RefusedOnlyAtLimit ==
    \A c \in Conns :
        callback[c] = "refusing" =>
            maxPeers <= Cardinality(
                {p \in Peers \ {RemotePeer[c]} :
                    \E d \in Conns : /\ RemotePeer[d] = p
                                     /\ conn[d] # "idle"
                                     /\ callback[d] # "down"})

=============================================================================
