-------------------------- MODULE PeerLimiterProofs --------------------------
(***************************************************************************)
(* Proofs about PeerLimiter for every set of peers and connections, every  *)
(* limit and every placement of connections on peers.  The invariant IInv  *)
(* is inductive; each lemma Step... shows that a step preserves one group  *)
(* of its conjuncts, action by action.                                     *)
(***************************************************************************)
EXTENDS PeerLimiter, FiniteSetTheorems, TLAPS

\* The limit is a number.
LEMMA LimitIsNat == maxPeers \in Nat
BY LimiterAssumption DEF maxPeers

\* The initial state satisfies the inductive invariant.
LEMMA InitIInv == Init => IInv
<1> SUFFICES ASSUME Init PROVE IInv
  OBVIOUS
<1>1. TypeOK
  BY DEF Init, TypeOK, GcStates, CallbackStates, ConnStates, NodeStates
<1>2. IsFiniteSet(connectedCache) /\ CounterBounds
  BY FS_EmptySet, LimitIsNat DEF Init, CounterBounds
<1>3. MutexDiscipline
  BY LimiterAssumption DEF Init, MutexDiscipline
<1>4. CallbackOrder /\ RefusalInv /\ RemovalInv /\ NoUntrackedPeer /\ NoStuckEntry
  BY DEF Init, CallbackOrder, RefusalInv, RemovalInv, NoUntrackedPeer, NoStuckEntry
<1>5. QED
  BY <1>1, <1>2, <1>3, <1>4 DEF IInv

-----------------------------------------------------------------------------
(* Types *)

\* Every step keeps the types.
LEMMA StepTypes ==
  ASSUME IInv, [Next]_vars
  PROVE  TypeOK'
<1> USE DEF TypeOK, gcVars, swarmVars
<1>1. TypeOK
  BY DEF IInv
<1>2. ASSUME NEW c \in Conns, Open(c) \/ Drop(c) PROVE TypeOK'
  BY <1>1, <1>2 DEF Open, Drop, ConnStates
<1>3. ASSUME NEW c \in Conns, ConnectedKnown(c) PROVE TypeOK'
  BY <1>1, <1>3 DEF ConnectedKnown, CallbackStates
<1>4. ASSUME NEW c \in Conns, ConnectedAdmit(c) PROVE TypeOK'
  <2>1. RemotePeer[c] \in Peers
    BY LimiterAssumption
  <2>2. QED
    BY <1>1, <1>4, <2>1 DEF ConnectedAdmit, CallbackStates, Room
<1>5. ASSUME NEW c \in Conns, ConnectedRefuse(c) PROVE TypeOK'
  BY <1>1, <1>5 DEF ConnectedRefuse, CallbackStates, Room
<1>6. ASSUME NEW c \in Conns, NEW d \in Conns, RefuseClose(c, d) PROVE TypeOK'
  BY <1>1, <1>6 DEF RefuseClose, ConnStates
<1>7. ASSUME NEW c \in Conns, RefuseReturn(c) PROVE TypeOK'
  BY <1>1, <1>7 DEF RefuseReturn, CallbackStates
<1>8. ASSUME NEW c \in Conns, DisconnectedStillUp(c) \/ DisconnectedGone(c) PROVE TypeOK'
  BY <1>1, <1>8 DEF DisconnectedStillUp, DisconnectedGone, CallbackStates
<1>9. ASSUME NEW c \in Conns, DisconnectedRemove(c) PROVE TypeOK'
  <2>1. connected' \in Nat
    <3>1. CASE RemotePeer[c] \notin connectedCache
      BY <1>1, <1>9, <3>1 DEF DisconnectedRemove, GiveBack
    <3>2. CASE RemotePeer[c] \in connectedCache
      \* an entry in the cache means that at least one slot is in use
      <4>1. Cardinality(connectedCache) \in Nat /\ Cardinality(connectedCache) # 0
        BY <3>2, FS_CardinalityType, FS_EmptySet DEF IInv
      <4>2. Cardinality(connectedCache) <= connected
        BY DEF IInv, CounterBounds
      <4>3. QED
        BY <1>1, <1>9, <3>2, <4>1, <4>2 DEF DisconnectedRemove, GiveBack
    <3>3. QED
      BY <3>1, <3>2
  <2>2. QED
    BY <1>1, <1>9, <2>1 DEF DisconnectedRemove, CallbackStates, GiveBack
<1>10. ASSUME GcLoop \/ GcStart \/ GcDelete PROVE TypeOK'
  BY <1>1, <1>10 DEF GcLoop, GcStart, GcDelete, GcStates, GcLock, Running
<1>11. ASSUME NEW p \in Peers, GcCheck(p) PROVE TypeOK'
  BY <1>1, <1>11 DEF GcCheck
<1>12. ASSUME Cancel \/ HostClose \/ HostClosed PROVE TypeOK'
  BY <1>1, <1>12 DEF Cancel, HostClose, HostClosed, NodeStates, ConnStates
<1>13. ASSUME Terminated \/ UNCHANGED vars PROVE TypeOK'
  BY <1>1, <1>13 DEF Terminated, vars
<1>14. QED
  BY <1>2, <1>3, <1>4, <1>5, <1>6, <1>7, <1>8, <1>9, <1>10, <1>11, <1>12, <1>13
     DEF Next

-----------------------------------------------------------------------------
(* The counter and the cache *)

\* Every action but three leaves the counter and the cache alone.
LEMMA OnlyThreeCount ==
  ASSUME [Next]_vars
  PROVE  \/ UNCHANGED <<connected, connectedCache>>
         \/ \E c \in Conns : ConnectedAdmit(c) \/ DisconnectedRemove(c)
         \/ GcDelete
BY DEF Next, vars, Open, Drop, ConnectedKnown, ConnectedRefuse, RefuseClose,
       RefuseReturn, DisconnectedStillUp, DisconnectedGone, GcLoop, GcStart,
       GcCheck, Cancel, HostClose, HostClosed, Terminated, Room, GcLock, Running

\* Admitting, removing and gc keep the counter between the size of the cache and the limit.
LEMMA StepCounter ==
  ASSUME IInv, [Next]_vars
  PROVE  IsFiniteSet(connectedCache)' /\ CounterBounds'
<1> USE DEF CounterBounds
<1>1. /\ connected \in Nat /\ maxPeers \in Nat
      /\ IsFiniteSet(connectedCache)
      /\ Cardinality(connectedCache) \in Nat
      /\ Cardinality(connectedCache) <= connected
      /\ connected <= maxPeers + 1
  BY LimitIsNat, FS_CardinalityType DEF IInv, TypeOK
<1>2. CASE UNCHANGED <<connected, connectedCache>>
  BY <1>1, <1>2
<1>3. ASSUME NEW c \in Conns, ConnectedAdmit(c)
      PROVE  IsFiniteSet(connectedCache)' /\ CounterBounds'
  <2>1. /\ connectedCache' = connectedCache \cup {RemotePeer[c]}
        /\ RemotePeer[c] \notin connectedCache
        /\ connected' = connected + 1
        /\ ~(connected > maxPeers)
    BY <1>3 DEF ConnectedAdmit, Room
  <2>2. /\ IsFiniteSet(connectedCache')
        /\ Cardinality(connectedCache') = Cardinality(connectedCache) + 1
    BY <1>1, <2>1, FS_AddElement
  <2>3. QED
    BY <1>1, <2>1, <2>2
<1>4. ASSUME NEW c \in Conns, DisconnectedRemove(c)
      PROVE  IsFiniteSet(connectedCache)' /\ CounterBounds'
  <2>1. /\ connectedCache' = connectedCache \ {RemotePeer[c]}
        /\ connected' = IF RemotePeer[c] \in connectedCache THEN connected - 1
                                                            ELSE connected
    BY <1>4 DEF DisconnectedRemove, GiveBack
  <2>2. /\ IsFiniteSet(connectedCache')
        /\ Cardinality(connectedCache') =
             IF RemotePeer[c] \in connectedCache THEN Cardinality(connectedCache) - 1
                                                 ELSE Cardinality(connectedCache)
    BY <1>1, <2>1, FS_RemoveElement
  <2>3. QED
    BY <1>1, <2>1, <2>2
<1>5. CASE GcDelete
  <2>1. connectedCache' = connectedCache \ toRemove /\ connected' = connected
    BY <1>5 DEF GcDelete
  <2>2. /\ IsFiniteSet(connectedCache')
        /\ Cardinality(connectedCache') <= Cardinality(connectedCache)
        /\ Cardinality(connectedCache') \in Nat
    <3>1. connectedCache' \in SUBSET connectedCache
      BY <2>1
    <3>2. QED
      BY <1>1, <3>1, FS_Subset, FS_CardinalityType
  <2>3. QED
    BY <1>1, <2>1, <2>2
<1>6. QED
  BY <1>2, <1>3, <1>4, <1>5, OnlyThreeCount

-----------------------------------------------------------------------------
(* The mutex and the order of callbacks *)

\* The mutex has one holder, and who holds it is where the code holds it.
LEMMA StepMutex ==
  ASSUME IInv, [Next]_vars
  PROVE  MutexDiscipline' /\ CallbackOrder'
<1> USE DEF MutexDiscipline, CallbackOrder, gcVars, swarmVars
<1>1. TypeOK /\ MutexDiscipline /\ CallbackOrder
  BY DEF IInv
<1>2. Gc \notin Conns /\ Nobody \notin Conns /\ Gc # Nobody
  BY LimiterAssumption
<1>3. ASSUME NEW c \in Conns, Open(c) \/ Drop(c)
      PROVE  MutexDiscipline' /\ CallbackOrder'
  BY <1>1, <1>3 DEF TypeOK, Open, Drop
<1>4. ASSUME NEW c \in Conns, ConnectedKnown(c) \/ ConnectedAdmit(c)
      PROVE  MutexDiscipline' /\ CallbackOrder'
  BY <1>1, <1>2, <1>4 DEF TypeOK, ConnectedKnown, ConnectedAdmit, ConnectedDue, Room
<1>5. ASSUME NEW c \in Conns, ConnectedRefuse(c)
      PROVE  MutexDiscipline' /\ CallbackOrder'
  BY <1>1, <1>2, <1>5 DEF TypeOK, ConnectedRefuse, ConnectedDue, Room
<1>6. ASSUME NEW c \in Conns, NEW d \in Conns, RefuseClose(c, d)
      PROVE  MutexDiscipline' /\ CallbackOrder'
  BY <1>1, <1>6 DEF TypeOK, RefuseClose
<1>7. ASSUME NEW c \in Conns, RefuseReturn(c)
      PROVE  MutexDiscipline' /\ CallbackOrder'
  BY <1>1, <1>2, <1>7 DEF TypeOK, RefuseReturn
<1>8. ASSUME NEW c \in Conns, DisconnectedStillUp(c)
      PROVE  MutexDiscipline' /\ CallbackOrder'
  BY <1>1, <1>2, <1>8 DEF TypeOK, DisconnectedStillUp, DisconnectedDue
<1>9. ASSUME NEW c \in Conns, DisconnectedGone(c)
      PROVE  MutexDiscipline' /\ CallbackOrder'
  BY <1>1, <1>2, <1>9 DEF TypeOK, DisconnectedGone, DisconnectedDue
<1>10. ASSUME NEW c \in Conns, DisconnectedRemove(c)
       PROVE  MutexDiscipline' /\ CallbackOrder'
  BY <1>1, <1>2, <1>10 DEF TypeOK, DisconnectedRemove, GiveBack
<1>11. ASSUME GcLoop \/ GcStart \/ GcDelete
       PROVE  MutexDiscipline' /\ CallbackOrder'
  BY <1>1, <1>2, <1>11 DEF TypeOK, GcLoop, GcStart, GcDelete, GcLock, Running
<1>12. ASSUME NEW p \in Peers, GcCheck(p)
       PROVE  MutexDiscipline' /\ CallbackOrder'
  BY <1>1, <1>12 DEF TypeOK, GcCheck
<1>13. ASSUME Cancel \/ HostClose \/ HostClosed
       PROVE  MutexDiscipline' /\ CallbackOrder'
  BY <1>1, <1>13 DEF TypeOK, Cancel, HostClose, HostClosed
<1>14. ASSUME Terminated \/ UNCHANGED vars
       PROVE  MutexDiscipline' /\ CallbackOrder'
  BY <1>1, <1>14 DEF Terminated, vars
<1>15. QED
  BY <1>3, <1>4, <1>5, <1>6, <1>7, <1>8, <1>9, <1>10, <1>11, <1>12, <1>13, <1>14
     DEF Next

-----------------------------------------------------------------------------
(* What the holder of the mutex has decided stays true until it acts *)

\* What refusals and removals have decided on stays true until they act on it.
LEMMA StepDecisions ==
  ASSUME IInv, [Next]_vars
  PROVE  RefusalInv' /\ RemovalInv'
<1> USE DEF RefusalInv, RemovalInv, OnlyUnannounced, gcVars, swarmVars
<1>1. TypeOK /\ MutexDiscipline /\ CallbackOrder /\ RefusalInv /\ RemovalInv
  BY DEF IInv
<1>2. Gc \notin Conns /\ Nobody \notin Conns /\ Gc # Nobody
  BY LimiterAssumption
\* while the mutex is free, no callback and no gc is in the middle of anything
<1>3. l = Nobody => /\ \A c \in Conns : callback[c] \notin {"refusing", "removing"}
                    /\ closing = {} /\ toRemove = {}
  BY <1>1, <1>2 DEF MutexDiscipline
<1>4. ASSUME NEW c \in Conns, Open(c)
      PROVE  RefusalInv' /\ RemovalInv'
  \* a connection that opens has not been announced
  <2>1. callback[c] = "none"
    BY <1>1, <1>4 DEF Open, CallbackOrder, TypeOK
  <2>2. QED
    BY <1>1, <1>4, <2>1 DEF TypeOK, Open
<1>5. ASSUME NEW c \in Conns, Drop(c)
      PROVE  RefusalInv' /\ RemovalInv'
  BY <1>1, <1>5 DEF TypeOK, Drop
<1>6. ASSUME NEW c \in Conns, ConnectedKnown(c) \/ ConnectedAdmit(c)
      PROVE  RefusalInv' /\ RemovalInv'
  BY <1>1, <1>3, <1>6 DEF TypeOK, ConnectedKnown, ConnectedAdmit, ConnectedDue, Room
<1>7. ASSUME NEW c \in Conns, ConnectedRefuse(c)
      PROVE  RefusalInv' /\ RemovalInv'
  BY <1>1, <1>3, <1>7 DEF TypeOK, ConnectedRefuse, ConnectedDue, Room
<1>8. ASSUME NEW c \in Conns, NEW d \in Conns, RefuseClose(c, d)
      PROVE  RefusalInv' /\ RemovalInv'
  BY <1>1, <1>8 DEF TypeOK, RefuseClose
<1>9. ASSUME NEW c \in Conns, RefuseReturn(c)
      PROVE  RefusalInv' /\ RemovalInv'
  \* c held the mutex, so nothing else was being decided
  <2>1. \A d \in Conns : callback'[d] \notin {"refusing", "removing"}
    BY <1>1, <1>9 DEF TypeOK, RefuseReturn, MutexDiscipline
  <2>2. toRemove' = {}
    BY <1>1, <1>2, <1>9 DEF RefuseReturn, MutexDiscipline
  <2>3. QED
    BY <2>1, <2>2
<1>10. ASSUME NEW c \in Conns, DisconnectedStillUp(c)
       PROVE  RefusalInv' /\ RemovalInv'
  BY <1>1, <1>3, <1>10 DEF TypeOK, DisconnectedStillUp, DisconnectedDue
<1>11. ASSUME NEW c \in Conns, DisconnectedGone(c)
       PROVE  RefusalInv' /\ RemovalInv'
  BY <1>1, <1>3, <1>11 DEF TypeOK, DisconnectedGone, DisconnectedDue, Connected
<1>12. ASSUME NEW c \in Conns, DisconnectedRemove(c)
       PROVE  RefusalInv' /\ RemovalInv'
  <2>1. \A d \in Conns : callback'[d] \notin {"refusing", "removing"}
    BY <1>1, <1>12 DEF TypeOK, DisconnectedRemove, MutexDiscipline, GiveBack
  <2>2. toRemove' = {}
    BY <1>1, <1>2, <1>12 DEF DisconnectedRemove, MutexDiscipline, GiveBack
  <2>3. QED
    BY <2>1, <2>2
<1>13. ASSUME GcLoop \/ GcStart \/ GcDelete
       PROVE  RefusalInv' /\ RemovalInv'
  BY <1>1, <1>13 DEF TypeOK, GcLoop, GcStart, GcDelete, GcLock, Running
<1>14. ASSUME NEW p \in Peers, GcCheck(p)
       PROVE  RefusalInv' /\ RemovalInv'
  BY <1>1, <1>14 DEF TypeOK, GcCheck, Connected
<1>15. ASSUME Cancel \/ HostClose \/ HostClosed
       PROVE  RefusalInv' /\ RemovalInv'
  BY <1>1, <1>15 DEF TypeOK, Cancel, HostClose, HostClosed
<1>16. ASSUME Terminated \/ UNCHANGED vars
       PROVE  RefusalInv' /\ RemovalInv'
  BY <1>1, <1>16 DEF Terminated, vars
<1>17. QED
  BY <1>4, <1>5, <1>6, <1>7, <1>8, <1>9, <1>10, <1>11, <1>12, <1>13, <1>14, <1>15, <1>16
     DEF Next

-----------------------------------------------------------------------------
(* Tracking *)

\* No step leaves a connected peer untracked, save those whose callback is to come.
LEMMA StepUntracked ==
  ASSUME IInv, [Next]_vars
  PROVE  NoUntrackedPeer'
<1> USE DEF NoUntrackedPeer, gcVars, swarmVars
<1>1. TypeOK /\ MutexDiscipline /\ CallbackOrder /\ RefusalInv /\ RemovalInv /\ NoUntrackedPeer
  BY DEF IInv
<1>2. ASSUME NEW c \in Conns, Open(c)
      PROVE  NoUntrackedPeer'
  <2>1. callback[c] = "none"
    BY <1>1, <1>2 DEF Open, CallbackOrder, TypeOK
  <2>2. QED
    BY <1>1, <1>2, <2>1 DEF TypeOK, Open
<1>3. ASSUME NEW c \in Conns, Drop(c)
      PROVE  NoUntrackedPeer'
  BY <1>1, <1>3 DEF TypeOK, Drop
<1>4. ASSUME NEW c \in Conns, ConnectedKnown(c) \/ ConnectedAdmit(c)
      PROVE  NoUntrackedPeer'
  BY <1>1, <1>4 DEF TypeOK, ConnectedKnown, ConnectedAdmit, Room
<1>5. ASSUME NEW c \in Conns, ConnectedRefuse(c)
      PROVE  NoUntrackedPeer'
  BY <1>1, <1>5 DEF TypeOK, ConnectedRefuse, Room
<1>6. ASSUME NEW c \in Conns, NEW d \in Conns, RefuseClose(c, d)
      PROVE  NoUntrackedPeer'
  BY <1>1, <1>6 DEF TypeOK, RefuseClose
<1>7. ASSUME NEW c \in Conns, RefuseReturn(c)
      PROVE  NoUntrackedPeer'
  \* ClosePeer has closed the connection that was refused
  <2>1. conn[c] # "open"
    BY <1>1, <1>7 DEF RefuseReturn, RefusalInv
  <2>2. QED
    BY <1>1, <1>7, <2>1 DEF TypeOK, RefuseReturn
<1>8. ASSUME NEW c \in Conns, DisconnectedStillUp(c) \/ DisconnectedGone(c)
      PROVE  NoUntrackedPeer'
  BY <1>1, <1>8 DEF TypeOK, DisconnectedStillUp, DisconnectedGone
<1>9. ASSUME NEW c \in Conns, DisconnectedRemove(c)
      PROVE  NoUntrackedPeer'
  \* a connection that came back since the look at the swarm is unannounced
  <2>1. OnlyUnannounced(RemotePeer[c])
    BY <1>1, <1>9 DEF DisconnectedRemove, RemovalInv, GiveBack
  <2>2. QED
    BY <1>1, <1>9, <2>1 DEF TypeOK, DisconnectedRemove, OnlyUnannounced, GiveBack
<1>10. CASE GcDelete
  <2>1. \A p \in toRemove : OnlyUnannounced(p)
    BY <1>1 DEF RemovalInv
  <2>2. QED
    BY <1>1, <1>10, <2>1 DEF TypeOK, GcDelete, OnlyUnannounced
<1>11. ASSUME \/ GcLoop \/ GcStart \/ \E p \in Peers : GcCheck(p)
              \/ Cancel \/ HostClose \/ HostClosed \/ Terminated \/ UNCHANGED vars
       PROVE  NoUntrackedPeer'
  BY <1>1, <1>11 DEF TypeOK, GcLoop, GcStart, GcCheck, Cancel, HostClose, HostClosed,
                     Terminated, vars, GcLock, Running
<1>12. QED
  BY <1>2, <1>3, <1>4, <1>5, <1>6, <1>7, <1>8, <1>9, <1>10, <1>11 DEF Next

\* No step leaves an entry that nobody will remove.
LEMMA StepStuck ==
  ASSUME IInv, [Next]_vars
  PROVE  NoStuckEntry'
<1> DEFINE Live(c) == conn[c] # "idle" /\ callback[c] # "down"
<1> USE DEF gcVars, swarmVars
<1>1. TypeOK /\ CallbackOrder /\ NoStuckEntry
  BY DEF IInv
\* two steps end the life of a connection: one leaves another connection of
\* the peer alive, the other removes the peer from the cache
<1>2. ASSUME NEW c \in Conns, DisconnectedStillUp(c)
      PROVE  NoStuckEntry'
  <2>1. PICK d \in Conns : RemotePeer[d] = RemotePeer[c] /\ conn[d] = "open"
    BY <1>2 DEF DisconnectedStillUp, Connected
  <2>2. callback[d] # "down" /\ d # c
    BY <1>1, <1>2, <2>1 DEF CallbackOrder, DisconnectedStillUp, DisconnectedDue
  <2>3. QED
    BY <1>1, <1>2, <2>1, <2>2 DEF TypeOK, NoStuckEntry, DisconnectedStillUp
<1>3. ASSUME NEW c \in Conns, DisconnectedRemove(c)
      PROVE  NoStuckEntry'
  BY <1>1, <1>3 DEF TypeOK, NoStuckEntry, DisconnectedRemove, GiveBack
<1>4. ASSUME NEW c \in Conns, ConnectedAdmit(c)
      PROVE  NoStuckEntry'
  BY <1>1, <1>4 DEF TypeOK, NoStuckEntry, ConnectedAdmit, ConnectedDue, Room
\* in every other step the cache does not grow and no connection dies
<1>5. ASSUME connectedCache' \subseteq connectedCache,
             \A c \in Conns : Live(c) => Live(c)'
      PROVE  NoStuckEntry'
  BY <1>1, <1>5 DEF NoStuckEntry
<1>6. ASSUME NEW c \in Conns, Open(c) \/ Drop(c)
      PROVE  NoStuckEntry'
  BY <1>1, <1>5, <1>6 DEF TypeOK, Open, Drop
<1>7. ASSUME NEW c \in Conns,
             ConnectedKnown(c) \/ ConnectedRefuse(c) \/ RefuseReturn(c) \/ DisconnectedGone(c)
      PROVE  NoStuckEntry'
  BY <1>1, <1>5, <1>7 DEF TypeOK, ConnectedKnown, ConnectedRefuse, RefuseReturn, DisconnectedGone, Room
<1>8. ASSUME NEW c \in Conns, NEW d \in Conns, RefuseClose(c, d)
      PROVE  NoStuckEntry'
  BY <1>1, <1>5, <1>8 DEF TypeOK, RefuseClose
<1>9. ASSUME \/ GcLoop \/ GcStart \/ GcDelete \/ \E p \in Peers : GcCheck(p)
             \/ Cancel \/ HostClose \/ HostClosed \/ Terminated \/ UNCHANGED vars
      PROVE  NoStuckEntry'
  BY <1>1, <1>5, <1>9 DEF TypeOK, GcLoop, GcStart, GcDelete, GcCheck, Cancel, HostClose,
                          HostClosed, Terminated, vars, GcLock, Running
<1>10. QED
  BY <1>2, <1>3, <1>4, <1>6, <1>7, <1>8, <1>9 DEF Next

-----------------------------------------------------------------------------
(* Theorems *)

\* IInv holds in every state the limiter reaches.
THEOREM Inductive == Spec => []IInv
<1>1. Init => IInv
  BY InitIInv
<1>2. IInv /\ [Next]_vars => IInv'
  BY StepTypes, StepCounter, StepMutex, StepDecisions, StepUntracked, StepStuck DEF IInv
<1>3. QED
  BY <1>1, <1>2, PTL DEF Spec

\* The variables keep their types; in particular the counter, which
\* DisconnectedF decrements, never goes below zero.
THEOREM TypeCorrect == Spec => []TypeOK
<1>1. IInv => TypeOK
  BY DEF IInv
<1>2. QED
  BY <1>1, Inductive, PTL

\* The counter covers the cache and stops at maxPeers + 1.
THEOREM CounterBounded == Spec => []CounterBounds
<1>1. IInv => CounterBounds
  BY DEF IInv
<1>2. QED
  BY <1>1, Inductive, PTL

\* Announced open connections belong to tracked peers.
THEOREM NothingUntracked == Spec => []NoUntrackedPeer
<1>1. IInv => NoUntrackedPeer
  BY DEF IInv
<1>2. QED
  BY <1>1, Inductive, PTL

\* Every entry of the cache has a connection that can still remove it.
THEOREM NothingStuck == Spec => []NoStuckEntry
<1>1. IInv => NoStuckEntry
  BY DEF IInv
<1>2. QED
  BY <1>1, Inductive, PTL

\* ClosePeer never closes a connection of a tracked peer.
THEOREM TrackedNotClosed == Spec => []NeverClosesTracked
<1>1. IInv => NeverClosesTracked
  <2> SUFFICES ASSUME IInv, NEW d \in closing PROVE RemotePeer[d] \notin connectedCache
    BY DEF NeverClosesTracked
  <2>1. PICK c \in Conns : callback[c] = "refusing"
    BY DEF IInv, MutexDiscipline
  <2>2. QED
    BY <2>1 DEF IInv, RefusalInv
<1>2. QED
  BY <1>1, Inductive, PTL

\* When nothing is pending, the cache is the set of connected peers.
THEOREM CacheExact == Spec => []CacheExactWhenQuiet
<1>1. IInv => CacheExactWhenQuiet
  <2> SUFFICES ASSUME IInv, Quiet PROVE connectedCache = ConnectedPeers
    BY DEF CacheExactWhenQuiet
  <2>1. \A c \in Conns : conn[c] # "idle" /\ callback[c] # "down"
                           <=> conn[c] = "open" /\ callback[c] = "up"
    BY DEF Quiet
  <2>2. connectedCache \subseteq ConnectedPeers
    BY <2>1 DEF IInv, TypeOK, NoStuckEntry, ConnectedPeers, Connected
  <2>3. ConnectedPeers \subseteq connectedCache
    <3>1. \A c \in Conns : conn[c] = "open" => callback[c] = "up"
      BY DEF Quiet
    <3>2. QED
      BY <3>1 DEF IInv, NoUntrackedPeer, ConnectedPeers, Connected
  <2>4. QED
    BY <2>2, <2>3
<1>2. QED
  BY <1>1, Inductive, PTL

\* Counter and cache part only in gc's deletion, and only upwards.
THEOREM SlotsLostByGcAlone == Spec => OnlyGcLosesSlots
<1>1. ASSUME IInv, [Next]_vars
      PROVE  LostSlots' # LostSlots => l = Gc /\ LostSlots' > LostSlots
  <2>1. /\ connected \in Nat
        /\ IsFiniteSet(connectedCache)
        /\ Cardinality(connectedCache) \in Nat
    BY <1>1, FS_CardinalityType DEF IInv, TypeOK
  <2>2. CASE UNCHANGED <<connected, connectedCache>>
    BY <2>2 DEF LostSlots
  <2>3. ASSUME NEW c \in Conns, ConnectedAdmit(c)
        PROVE  LostSlots' = LostSlots
    <3>1. Cardinality(connectedCache') = Cardinality(connectedCache) + 1
      BY <2>1, <2>3, FS_AddElement DEF ConnectedAdmit, Room
    <3>2. QED
      BY <2>1, <2>3, <3>1 DEF ConnectedAdmit, LostSlots, Room
  <2>4. ASSUME NEW c \in Conns, DisconnectedRemove(c)
        PROVE  LostSlots' = LostSlots
    <3>1. Cardinality(connectedCache') =
             IF RemotePeer[c] \in connectedCache THEN Cardinality(connectedCache) - 1
                                                 ELSE Cardinality(connectedCache)
      BY <2>1, <2>4, FS_RemoveElement DEF DisconnectedRemove, GiveBack
    <3>2. QED
      BY <2>1, <2>4, <3>1 DEF DisconnectedRemove, LostSlots, GiveBack
  <2>5. CASE GcDelete
    <3>1. l = Gc
      BY <1>1, <2>5 DEF GcDelete, IInv, MutexDiscipline
    <3>2. connected' = connected /\ connectedCache' \in SUBSET connectedCache
      BY <2>5 DEF GcDelete
    <3>3. /\ Cardinality(connectedCache') <= Cardinality(connectedCache)
          /\ Cardinality(connectedCache') \in Nat
      BY <2>1, <3>2, FS_Subset, FS_CardinalityType
    <3>4. QED
      BY <2>1, <3>1, <3>2, <3>3 DEF LostSlots
  <2>6. QED
    BY <1>1, <2>2, <2>3, <2>4, <2>5, OnlyThreeCount
<1>2. QED
  BY <1>1, Inductive, PTL DEF Spec, OnlyGcLosesSlots

\* The limiter implements the abstract budget: a step tracks one peer, or
\* releases one, or forgets some, or leaves the budget alone.
THEOREM ImplementsBudget == Spec => KeepsBudget
<1>1. Init => Budget!Init
  BY DEF Init, Budget!Init
<1>2. ASSUME IInv, [Next]_vars
      PROVE  [Budget!Next]_<<connectedCache, connected>>
  <2>1. CASE UNCHANGED <<connected, connectedCache>>
    BY <2>1
  <2>2. ASSUME NEW c \in Conns, ConnectedAdmit(c)
        PROVE  Budget!Track(RemotePeer[c])
    BY <2>2, LimitIsNat, <1>2 DEF ConnectedAdmit, Budget!Track, IInv, TypeOK, Room
  <2>3. ASSUME NEW c \in Conns, DisconnectedRemove(c)
        PROVE  \/ Budget!Release(RemotePeer[c])
               \/ UNCHANGED <<connected, connectedCache>>
    BY <2>3 DEF DisconnectedRemove, Budget!Release, GiveBack
  <2>4. ASSUME GcDelete
        PROVE  Budget!Forget(toRemove)
    BY <2>4 DEF GcDelete, Budget!Forget
  <2>5. /\ \A c \in Conns : RemotePeer[c] \in Peers
        /\ toRemove \in SUBSET Peers
    BY <1>2, LimiterAssumption DEF IInv, TypeOK
  <2>6. QED
    BY <1>2, <2>1, <2>2, <2>3, <2>4, <2>5, OnlyThreeCount DEF Budget!Next
<1>3. QED
  BY <1>1, <1>2, Inductive, PTL DEF Spec, KeepsBudget, Budget!Spec

=============================================================================
